---- MODULE Spec2Model ----
(***************************************************************************)
(* State-machine model of the connectivity core of better-control:        *)
(*   - the TTL result cache shared by BluetoothctlService and              *)
(*     NetworkManagerService (_cached_run / invalidate_cache),             *)
(*   - the with_retries decorator of tools/bluetooth.py,                   *)
(*   - AudioRouter of tools/bluetooth.py and the property-change handler   *)
(*     of BluetoothManager that drives it,                                 *)
(*   - connect_device_async / disconnect_device_async of BluetoothManager, *)
(*   - get_bluetooth_manager and the synchronous public methods of         *)
(*     BluetoothManager,                                                   *)
(*   - the read and write operations of BluetoothctlService and            *)
(*     NetworkManagerService on top of the cache,                          *)
(*   - BluetoothManager.__del__,                                           *)
(*   - parse_network_list of tools/parsers/wifi_parser.py,                 *)
(*   - the callback loop of AudioRouter.set_default_sink, statement by     *)
(*     statement,                                                          *)
(*   - SpeedtestRunner of tools/speedtest.py.                              *)
(* Each part has its own specification; the variables of the other parts   *)
(* stay at their initial values.                                           *)
(***************************************************************************)
EXTENDS Integers, Sequences, FiniteSets, TLC

VARIABLES
    \* ---- service instance (bluetoothctl_service.py / nmcli_service.py)
    clock,             \* the value time.time() returns
    cache,             \* self._cache            : cache_key -> output
    cache_timestamps,  \* self._cache_timestamps : cache_key -> time
    lock,              \* self._lock : the thread inside `with self._lock`, or Free
    pc,                \* per thread: position inside _cached_run / invalidate_cache
    arg,               \* per thread: the arguments of the call in progress
    now,               \* per thread: local `now` of _cached_run
    result,            \* per thread: local `result`, the value to return
    how,               \* per thread: how the call in progress was answered
    computed,          \* history: per key, the last execution that was to be stored
    flushed,           \* history: keys invalidated and not executed since
    \* ---- one run of a with_retries wrapper (tools/bluetooth.py)
    max_retries,          \* decorator argument
    base_delay,           \* decorator argument
    timeout,              \* decorator argument
    exceptions_to_catch,  \* decorator argument: the exception types retried
    rtime,                \* the value time.time() returns
    wpc,                  \* position inside wrapper
    start_time,           \* local of wrapper
    last_exception,       \* local of wrapper
    attempt,              \* loop variable of wrapper
    delay,                \* local of wrapper
    outcome,              \* how wrapper ended: value returned or exception raised
    history,              \* history: what each invocation of func did
    sleeps,               \* history: number of time.sleep calls
    last_action,          \* history: the last of deadline check / attempt / sleep
    \* ---- AudioRouter (tools/bluetooth.py) and the calls made on it
    callbacks,         \* self.callbacks
    current_sink,      \* self.current_sink
    sink_state_file,   \* the file SINK_STATE_FILE
    op,                \* the public method in progress, or None
    origin,            \* who called it: a caller, or the property-change signal
    signal,            \* the notification the handler received
    device_path,       \* argument of switch_to_bluetooth_audio
    apc,               \* position inside the method in progress
    sinks,             \* local `sinks` of the method in progress
    sources,           \* local `sources` of the method in progress
    success,           \* local `success` of the switch methods
    callee,            \* the decorated setter being run, or None
    target,            \* its argument sink_name / source_name
    sattempt,          \* loop variable of the setter's wrapper
    sresult,           \* how the setter ended: running, returned, raised
    aoutcome,          \* how the method in progress ended
    enumerated,        \* history: the enumerations the method made itself
    trace,             \* history: commands run, file writes, callbacks, calls
    before,            \* history: current_sink and the file when the method began
    \* ---- BluetoothManager: the asynchronous connect / disconnect
    bus,               \* self.bus: connected, or None
    wk,                \* per worker thread: position inside run_connect / run_disconnect
    kind,              \* per worker thread: the method that started it
    is_connected,      \* per worker thread: what the re-read of Connected gave
    wsuccess,          \* per worker thread: local `success`
    did,               \* history, per worker thread: the steps it performed
    route,             \* history, per worker thread: the path it took to its end
    idle_queue,        \* the closures handed to GLib.idle_add, not yet run
    invoked,           \* history: the invocations of completion callbacks
    handed,            \* history: the values each worker gave to GLib.idle_add
    notified,          \* history: callbacks of the router invoked, and by whom
    \* ---- BluetoothManager: construction and the synchronous public methods
    manager,           \* the module global _manager and its fields
    gpc,               \* position inside get_bluetooth_manager
    bluezd,            \* environment: the state of the adapter daemon on the bus
    causes,            \* history: what made each run of the _init_dbus body fail
    met_failure,       \* history: a bus call of the manager has raised
    last_call,         \* history: the last public method that ended
    teardown,          \* signal_match, mainloop, and what __del__ did
    \* ---- the operations of BluetoothctlService / NetworkManagerService
    spc,               \* position inside the operation in progress
    sarg,              \* the operation in progress and its argument
    scan,              \* history: scan on / scan off issued by the scan in progress
    marked,            \* history: keys whose entry was stored before the last mark
    sreturn,           \* history: what the last operation returned, and how
    \* ---- WiFiParser.parse_network_list
    parts,             \* the fields of the line being parsed
    network,           \* what the parser made of the line
    \* ---- SpeedtestRunner
    is_running,        \* self.is_running
    current_test,      \* self.current_test: the process of a test, or None
    tw,                \* position of each test thread
    proc,              \* environment: the speedtest process each thread started
    completions,       \* history: the calls of _notify_callbacks
    refused,           \* history: a run_test call returned at line 98
    \* ---- the notification loop of set_default_sink, callback by callback
    npc,               \* position inside the loop of line 355
    index,             \* the position of the list iterator
    registered,        \* history: self.callbacks when the loop began
    called,            \* history: the callbacks invoked, in order
    does               \* what each callback does when it is invoked

cvars == <<clock, cache, cache_timestamps, lock, pc, arg, now, result, how,
           computed, flushed>>

rvars == <<max_retries, base_delay, timeout, exceptions_to_catch, rtime, wpc,
           start_time, last_exception, attempt, delay, outcome, history, sleeps,
           last_action>>

avars == <<callbacks, current_sink, sink_state_file, op, origin, signal,
           device_path, apc, sinks, sources, success, callee, target, sattempt,
           sresult, aoutcome, enumerated, trace, before>>

mvars == <<bus, wk, kind, is_connected, wsuccess, did, route, idle_queue, invoked,
           handed, notified>>

bvars == <<manager, gpc, bluezd, causes, met_failure, last_call, teardown>>

svars == <<spc, sarg, scan, marked, sreturn>>

pvars == <<parts, network>>

tvars == <<is_running, current_test, tw, proc, completions, refused>>

nvars == <<npc, index, registered, called, does>>

vars == <<cvars, rvars, avars, mvars, bvars, svars, pvars, tvars, nvars>>

None == "None"
Free == "Free"

---------------------------------------------------------------------------
(* Bounds and constants of the cache                                       *)

\* self._cache_ttl
cache_ttl == 5

\* number of clock ticks explored
MaxTime == 6

\* time.time() is seconds since the epoch: far more than the TTL
StartTime == 2 * cache_ttl

Threads == {"t1", "t2"}

\* The call signatures the services pass to _cached_run: a default key
\* (cache_key = None), an explicit key, and the one uncached read.
Calls ==
    { [command |-> "show",              cache_key |-> None,      use_cache |-> TRUE],
      [command |-> "info m",            cache_key |-> "info_m",  use_cache |-> TRUE],
      [command |-> "cat /proc/net/dev", cache_key |-> "net_dev", use_cache |-> FALSE] }

\* line 59-60: cache_key defaults to the command
KeyOf(c) == IF c.cache_key = None THEN c.command ELSE c.cache_key

Keys == { KeyOf(c) : c \in Calls }

\* what _run_command can return for a command: the text is tagged with the
\* command that printed it
OutputsOf(command) == { <<command, 1>>, <<command, 2>> }

NoOutput == <<None, 0>>

\* arguments of invalidate_cache: a key, or None for a full flush
InvalidateArgs == Keys \cup {None}

EmptyMap == [k \in {} |-> NoOutput]

\* del f[k]
Remove(f, k) == [x \in (DOMAIN f) \ {k} |-> f[x]]

\* f[k] = v
Put(f, k, v) == [x \in (DOMAIN f) \cup {k} |-> IF x = k THEN v ELSE f[x]]

NoArg == [command |-> None, cache_key |-> None, use_cache |-> FALSE]

NoComputation == [at |-> 0, val |-> NoOutput, by |-> None]

---------------------------------------------------------------------------
(* Bounds and constants of with_retries                                    *)

\* largest max_retries explored
MaxRetries == 3

\* longest duration of one invocation of func
MaxDur == 3

\* how much longer than asked time.sleep may take
MaxJitter == 1

BaseDelays == {1, 2}

Timeouts == {2, 5}

\* the exception types func raises
Raisable == {"DBusException", "DBusInitError"}

\* exceptions_to_catch as _init_dbus passes it, and the default (Exception,)
CatchSets == { {"DBusException"}, Raisable }

NoException == [type |-> None, call |-> 0]

\* the exception raised by the i-th invocation of func
ExceptionOf(type, i) == [type |-> type, call |-> i]

TimeoutError == [type |-> "TimeoutError", call |-> 0]

RuntimeError == [type |-> "RuntimeError", call |-> 0]

NoOutcome == [kind |-> "none", type |-> None, call |-> 0]

\* wrapper returned the value of the i-th invocation
Returned(i) == [kind |-> "returned", type |-> None, call |-> i]

\* wrapper raised e
Raised(e) == [kind |-> "raised", type |-> e.type, call |-> e.call]

Max(a, b) == IF a >= b THEN a ELSE b

Pow2(n) == IF n <= 0 THEN 1 ELSE 2 ^ n

---------------------------------------------------------------------------
(* Initial states                                                          *)

\* __init__ of the service
InitCache ==
    /\ clock = StartTime
    /\ cache = EmptyMap
    /\ cache_timestamps = EmptyMap
    /\ lock = Free
    /\ pc = [t \in Threads |-> "idle"]
    /\ arg = [t \in Threads |-> NoArg]
    /\ now = [t \in Threads |-> 0]
    /\ result = [t \in Threads |-> NoOutput]
    /\ how = [t \in Threads |-> None]
    /\ computed = [k \in Keys |-> NoComputation]
    /\ flushed = {}

\* the locals of a wrapper that has not started
WrapperLocals ==
    /\ rtime = 0
    /\ start_time = 0
    /\ last_exception = NoException
    /\ attempt = 0
    /\ delay = 0
    /\ outcome = NoOutcome
    /\ history = <<>>
    /\ sleeps = 0
    /\ last_action = "none"

\* no wrapper is called
RetryAtRest ==
    /\ max_retries = 1
    /\ base_delay = 1
    /\ timeout = 2
    /\ exceptions_to_catch = Raisable
    /\ wpc = "off"
    /\ WrapperLocals

\* with_retries(max_retries, base_delay, timeout, exceptions_to_catch)(func)
InitRetry ==
    /\ max_retries \in 1..MaxRetries
    /\ base_delay \in BaseDelays
    /\ timeout \in Timeouts
    /\ exceptions_to_catch \in CatchSets
    /\ wpc = "start"
    /\ WrapperLocals

---------------------------------------------------------------------------
(* Constants of AudioRouter                                                *)

\* attempts of the decorator on set_default_sink / set_default_source
set_default_max_retries == 3

\* names are strings: sequences of characters
alsa_output == <<"a", "l", "s", "a">>

\* a name that holds "blue" but not "bluez"
blues_output == <<"b", "l", "u", "e", "s">>

bluez_sink == <<"b", "l", "u", "e", "z", "1">>

\* "bluez" in capitals, not at the start of the name
BlueZ_sink == <<"x", "B", "l", "u", "e", "Z">>

alsa_input == <<"m", "i", "c">>

bluez_source == <<"b", "l", "u", "e", "z", "i">>

BLUEZ_source == <<"B", "L", "U", "E", "Z">>

SinkNames == {alsa_output, blues_output, bluez_sink, BlueZ_sink}

SourceNames == {alsa_input, bluez_source, BLUEZ_source}

\* what `pactl list sinks short` can print, as the list of names in the
\* order printed
SinkLists ==
    { <<>>,
      <<alsa_output>>,
      <<blues_output, alsa_output>>,
      <<bluez_sink, alsa_output>>,
      <<alsa_output, BlueZ_sink, bluez_sink>> }

\* what `pactl list sources short` can print
SourceLists ==
    { <<>>,
      <<alsa_input>>,
      <<alsa_input, bluez_source, BLUEZ_source>> }

\* str.lower() on the characters used
LowerChar(c) ==
    CASE c = "B" -> "b"
      [] c = "L" -> "l"
      [] c = "U" -> "u"
      [] c = "E" -> "e"
      [] c = "Z" -> "z"
      [] OTHER   -> c

\* name.lower()
lower(s) == [i \in 1..Len(s) |-> LowerChar(s[i])]

\* sub in s
Contains(s, sub) ==
    \E i \in 1..(Len(s) - Len(sub) + 1) : SubSeq(s, i, i + Len(sub) - 1) = sub

\* line 215, 263: is_bluetooth = "bluez" in name.lower()
is_bluetooth(name) == Contains(lower(name), <<"b", "l", "u", "e", "z">>)

Whitespace == {" ", "\n", "\t"}

RECURSIVE lstrip(_)
lstrip(s) == IF s # <<>> /\ Head(s) \in Whitespace THEN lstrip(Tail(s)) ELSE s

RECURSIVE rstrip(_)
rstrip(s) ==
    IF s # <<>> /\ s[Len(s)] \in Whitespace THEN rstrip(SubSeq(s, 1, Len(s) - 1)) ELSE s

\* str.strip()
strip(s) == rstrip(lstrip(s))

\* SINK_STATE_FILE does not exist
NoFile == [exists |-> FALSE, text |-> <<>>]

FileWith(text) == [exists |-> TRUE, text |-> text]

\* what the file can hold when the program starts
InitialFiles ==
    { NoFile,
      FileWith(<<>>),
      FileWith(<<" ", "\n">>),
      FileWith(alsa_output \o <<"\n">>),
      FileWith(<<" ">> \o BlueZ_sink),
      FileWith(<<"g", "o", "n", "e">>) }

\* self.current_sink = None
NoSink == <<>>

\* the subscribers of routing changes
CallbackIds == {"cb1", "cb2"}

DevicePaths == {"/org/bluez/hci0/dev_A", "/org/bluez/hci0/dev_B"}

BLUEZ_DEVICE_INTERFACE == "org.bluez.Device1"

BLUEZ_ADAPTER_INTERFACE == "org.bluez.Adapter1"

Interfaces == {BLUEZ_DEVICE_INTERFACE, BLUEZ_ADAPTER_INTERFACE}

\* changed_properties of a PropertiesChanged signal: a dict of some of the
\* properties of the object
ChangedProperties ==
    { changed \in UNION { [S -> BOOLEAN] : S \in SUBSET {"Connected", "Paired"} } :
         "Paired" \in DOMAIN changed => changed["Paired"] }

NoSignal == [interface |-> None, changed |-> [k \in {} |-> TRUE], path |-> None]

\* an entry of the history of a method
Ev(k, name, cb, ok) == [kind |-> k, name |-> name, cb |-> cb, ok |-> ok]

\* an enumeration the method made itself: whether it returned a list, and
\* whether the list had a Bluetooth entry
Enum(what, ok, list) ==
    [what |-> what, ok |-> ok,
     bluetooth |-> ok /\ \E i \in 1..Len(list) : is_bluetooth(list[i])]

NoSnapshot == [current_sink |-> NoSink, file |-> NoFile]

\* the locals of a method that is not running
AudioLocals ==
    /\ op = None
    /\ origin = None
    /\ signal = NoSignal
    /\ device_path = None
    /\ sinks = <<>>
    /\ sources = <<>>
    /\ success = FALSE
    /\ callee = None
    /\ target = <<>>
    /\ sattempt = 0
    /\ sresult = None
    /\ aoutcome = None
    /\ enumerated = <<>>
    /\ trace = <<>>
    /\ before = NoSnapshot

\* no AudioRouter is in use
AudioAtRest ==
    /\ callbacks = <<>>
    /\ current_sink = NoSink
    /\ sink_state_file = NoFile
    /\ apc = "off"
    /\ AudioLocals

\* AudioRouter.__init__; the file is what an earlier run left
InitAudio ==
    /\ callbacks = <<>>
    /\ current_sink = NoSink
    /\ sink_state_file \in InitialFiles
    /\ apc = "idle"
    /\ AudioLocals

\* AudioRouter.__init__ of the manager, no sink saved so far
InitAudioOfManager ==
    /\ callbacks = <<>>
    /\ current_sink = NoSink
    /\ sink_state_file = NoFile
    /\ apc = "idle"
    /\ AudioLocals

---------------------------------------------------------------------------
(* Constants of the asynchronous connect / disconnect                      *)

\* the threads started by connect_device_async / disconnect_device_async
Workers == {"w1", "w2"}

MainThread == "main"

SystemBus == "dbus.SystemBus"

\* the outcomes of properties.Get(BLUEZ_DEVICE_INTERFACE, "Connected")
Reads == {"true", "false", "error"}

\* a closure handed to GLib.idle_add: callback(value) of the call of worker w
Closure(w, value) == [worker |-> w, value |-> value]

\* an invocation of the completion callback of the call of worker w
Invocation(w, value, thread) == [worker |-> w, value |-> value, thread |-> thread]

\* the callbacks registered with the router of the manager
RoutingSubscribers == {"cb1"}

\* the invocations of completion callbacks a run follows
MaxInvocations == 4

\* no thread has been started
WorkersUnstarted ==
    /\ wk = [w \in Workers |-> "unstarted"]
    /\ kind = [w \in Workers |-> None]
    /\ is_connected = [w \in Workers |-> "unread"]
    /\ wsuccess = [w \in Workers |-> FALSE]
    /\ did = [w \in Workers |-> {}]
    /\ route = [w \in Workers |-> None]
    /\ idle_queue = <<>>
    /\ invoked = <<>>
    /\ handed = [w \in Workers |-> <<>>]
    /\ notified = {}

\* no BluetoothManager is in use
ManagerAtRest ==
    /\ bus = None
    /\ WorkersUnstarted

\* BluetoothManager after __init__: with a bus, or degraded (self.bus is None)
InitManager ==
    /\ bus \in {None, SystemBus}
    /\ WorkersUnstarted

---------------------------------------------------------------------------
(* Constants of get_bluetooth_manager and the public methods               *)

DBUS_INIT_TIMEOUT == 10

DBUS_CONNECT_RETRIES == 3

\* the object path of the adapter find_adapter returns
hci0 == "/org/bluez/hci0"

\* self.adapter once set: a proxy of the adapter's Properties interface
AdapterProxy == "dbus.Interface(adapter)"

\* the adapter daemon: running with its adapter, running without an adapter
\* (adapter removed), or not on the bus (stopped, restarting)
BluezStates == {"up", "no_adapter", "down"}

\* what makes the body of _init_dbus fail: a D-Bus error of SystemBus(),
\* add_signal_receiver or get_object, or any other exception
Causes == {"DBusException", "Exception"}

\* how a call on the bus ends
AnyReply == {"ok", "DBusException", "Exception"}

\* calls on the adapter object or a device object: they are gone with the
\* adapter
ObjectReplies == IF bluezd = "up" THEN AnyReply ELSE {"DBusException"}

\* GetManagedObjects on the root object of the daemon
RootReplies == IF bluezd = "down" THEN {"DBusException"} ELSE AnyReply

\* _manager = None
NoManager == [made |-> FALSE, bus |-> None, adapter |-> None, adapter_path |-> None]

\* line 574-592: the fields _init_dbus sets when nothing raises
Initialised(path) ==
    [made |-> FALSE, bus |-> SystemBus,
     adapter |-> IF path = "" THEN None ELSE AdapterProxy,
     adapter_path |-> path]

\* a fallback manager that keeps the adapter path of a previous run
MinimalManagerWithPath ==
    [made |-> TRUE, bus |-> None, adapter |-> None, adapter_path |-> hci0]

\* line 1144-1149: BluetoothManager.__new__ and the four fields set by hand
MinimalManager ==
    [made |-> TRUE, bus |-> None, adapter |-> None, adapter_path |-> None]

NoCall == [op |-> None, value |-> None, raised |-> None, routed |-> FALSE,
           degraded |-> FALSE, lost |-> FALSE, failed |-> FALSE]

\* the attributes __del__ looks at besides bus and adapter, as
\* BluetoothManager.__new__ leaves them (line 1144: neither signal_match nor
\* mainloop is set), and what __del__ did
NoTeardown ==
    [signal_match |-> "absent", mainloop |-> "absent", subscribed |-> FALSE,
     ran |-> FALSE, failed |-> None, raised |-> None]

\* line 575, 582: _init_dbus returned: the receiver is registered on the bus,
\* signal_match is its SignalMatch and mainloop a GLib.MainLoop
Subscribed(loop) ==
    [signal_match |-> "SignalMatch", mainloop |-> loop, subscribed |-> TRUE,
     ran |-> FALSE, failed |-> None, raised |-> None]

\* no manager was asked for
GlobalAtRest ==
    /\ manager = NoManager
    /\ gpc = "off"
    /\ bluezd = "up"
    /\ causes = <<>>
    /\ met_failure = FALSE
    /\ last_call = NoCall
    /\ teardown = NoTeardown

\* the module is imported: _manager = None, _init_dbus decorated with
\* with_retries(max_retries=DBUS_CONNECT_RETRIES, timeout=DBUS_INIT_TIMEOUT,
\* exceptions_to_catch=(dbus.DBusException,)); the times of this wrapper are
\* counted in units of DEFAULT_BACKOFF_FACTOR = 0.5 s
InitGlobal ==
    /\ manager = NoManager
    /\ gpc = "idle"
    /\ bluezd \in BluezStates
    /\ causes = <<>>
    /\ met_failure = FALSE
    /\ last_call = NoCall
    /\ teardown = NoTeardown

InitRetryOfInitDbus ==
    /\ max_retries = DBUS_CONNECT_RETRIES
    /\ base_delay = 1
    /\ timeout = 2 * DBUS_INIT_TIMEOUT
    /\ exceptions_to_catch = {"DBusException"}
    /\ wpc = "off"
    /\ WrapperLocals

---------------------------------------------------------------------------
(* Constants of the service operations                                     *)

\* the device an operation is about, and another device
MacAddresses == {"m", "x"}

Ssids == {"s"}

\* an operation whose key is None, the argument that flushes the cache
InfoKeyNone(mac_address) == None

\* bluetoothctl_service.py line 174: cache_key = f"info_{mac_address}"
InfoKey(mac_address) == "info_" \o mac_address

\* nmcli_service.py line 135, 224: f"conn_info_{ssid}"
ConnInfoKey(ssid) == "conn_info_" \o ssid

\* nmcli_service.py line 99, 108
PowerCommand == "nmcli radio wifi"

\* nmcli_service.py line 113, 126, 225
NetworksCommand == "nmcli -t -f SSID,SIGNAL,SECURITY,IN-USE dev wifi list"

\* nmcli_service.py line 288: the command and the key of get_saved_networks
SavedCommand == "nmcli -t -f NAME,TYPE connection show"

SavedKey == "saved_connections"

\* the sleeps of scan_for_devices the callers ask for: shorter and not
\* shorter than the TTL
ScanTimeouts == {0, cache_ttl}

\* what _run_command returns to the operations of a service: two listings of
\* devices, one output for every other command
Printed(command) ==
    IF command = "devices" THEN OutputsOf(command) ELSE {<<command, 1>>}

\* how `rfkill block|unblock bluetooth` ends: exit status zero, a non-zero
\* exit status (CalledProcessError), no such tool (FileNotFoundError), any
\* other exception
RfkillOutcomes == {"0", "CalledProcessError", "FileNotFoundError", "Exception"}

\* the maps of the cache when an operation began
Snapshot == [cache |-> cache, stamps |-> cache_timestamps]

NoBefore == [cache |-> EmptyMap, stamps |-> EmptyMap]

NoOperation == [op |-> None, on |-> None, state |-> FALSE, todo |-> <<>>,
                value |-> FALSE, status |-> None, how |-> None, old |-> FALSE,
                before |-> NoBefore]

NoScan == [on |-> 0, off |-> 0]

NoMark == [by |-> None, keys |-> {}]

NoReturn == [op |-> None, on |-> None, state |-> FALSE, value |-> FALSE,
             status |-> None, how |-> None, old |-> FALSE, raised |-> None,
             before |-> NoBefore]

\* no operation of a service is called
ServiceAtRest ==
    /\ spc = "off"
    /\ sarg = NoOperation
    /\ scan = NoScan
    /\ marked = NoMark
    /\ sreturn = NoReturn

\* a service after __init__, no operation called yet
InitService ==
    /\ spc = "idle"
    /\ sarg = NoOperation
    /\ scan = NoScan
    /\ marked = NoMark
    /\ sreturn = NoReturn

---------------------------------------------------------------------------
(* Constants of WiFiParser.parse_network_list. A string is a sequence of    *)
(* its characters.                                                         *)

WPA2 == <<"W", "P", "A", "2">>
WPA3 == <<"W", "P", "A", "3">>
WPA == <<"W", "P", "A">>
WEP == <<"W", "E", "P">>

\* the characters of the short security fields
Letters == {"W", "P", "A", "E", "2", "3"}

MaxField == 3

ShortFields == UNION {[1..n -> Letters] : n \in 0..MaxField}

\* what nmcli prints in the SECURITY column, and near misses
Words ==
    {WPA2, WPA3, WPA, WEP, <<"W", "P", "A", "1">>, <<"-", "-">>,
     <<"w", "p", "a", "2">>, <<"8", "0", "2", ".", "1", "X">>}

SecurityFields ==
    ShortFields \cup Words \cup {x \o <<" ">> \o y : x \in Words, y \in Words}

Ssids_listed == {<<>>, <<"H">>}

SignalFields == {<<>>, <<"7", "2">>, <<"x">>}

InUseFields == {<<>>, <<"*">>}

\* line 35: line.split(':') of a line of the listing, with two, three or
\* four fields
Lines ==
    {<<ssid, strength>> : ssid \in Ssids_listed, strength \in SignalFields}
    \cup {<<ssid, strength, security>> :
             ssid \in Ssids_listed, strength \in SignalFields,
             security \in SecurityFields}
    \cup {<<ssid, strength, security, in_use>> :
             ssid \in Ssids_listed, strength \in {<<"7", "2">>},
             security \in Words, in_use \in InUseFields}

Unparsed ==
    [state |-> "unparsed", ssid |-> <<>>, signal_strength |-> 0,
     security_type |-> None, connected |-> FALSE]

\* the parser is not called
ParserAtRest ==
    /\ parts = <<>>
    /\ network = Unparsed

\* a line of the output is about to be parsed
InitParser ==
    /\ parts \in Lines
    /\ network = Unparsed

\* the subscribers of the loop
Subscribers == {"cb1", "cb2", "cb3"}

\* what a callback does with the router when invoked: nothing, raise,
\* register or unregister a callback, or unregister and register again
Behaviours ==
    {[kind |-> k, cb |-> None] : k \in {"nothing", "raise"}}
    \cup {[kind |-> k, cb |-> c] :
             k \in {"register", "unregister", "again"}, c \in Subscribers}

\* self.callbacks: register_callback appends a callback once
CallbackLists ==
    {list \in UNION {[1..n -> Subscribers] : n \in 0..Cardinality(Subscribers)} :
        \A i, j \in 1..Len(list) : list[i] = list[j] => i = j}

NoBehaviour == [c \in Subscribers |-> [kind |-> "nothing", cb |-> None]]

\* no notification is modelled step by step
NotifyAtRest ==
    /\ npc = "off"
    /\ index = 0
    /\ registered = <<>>
    /\ called = <<>>
    /\ does = NoBehaviour

\* set_default_sink is about to notify: some callbacks are registered
InitNotify ==
    /\ npc = "idle"
    /\ index = 0
    /\ registered = <<>>
    /\ called = <<>>
    /\ does \in [Subscribers -> Behaviours]

\* the threads run_test can start
TestThreads == {"s1", "s2"}

\* a speedtest process: not started, running, ended with status 0 or not,
\* ended by terminate() or kill()
ProcessStates == {"none", "running", "exit0", "exit1", "terminated", "killed"}

\* a call _notify_callbacks(result): the test the result is about, what the
\* result says, and who made the call
Completion(test, what, by) == [test |-> test, what |-> what, by |-> by]

\* line 42-48: SpeedtestRunner.__init__, with a result callback registered
InitSpeedtest ==
    /\ is_running = FALSE
    /\ current_test = None
    /\ tw = [s \in TestThreads |-> "unstarted"]
    /\ proc = [s \in TestThreads |-> "none"]
    /\ completions = <<>>
    /\ refused = FALSE

\* no speed test is asked for
SpeedtestAtRest == InitSpeedtest

---------------------------------------------------------------------------
(* The lock                                                                *)

\* a thread ignoring the lock
AcquireRacy(t) == lock' = t

\* `with self._lock:` entered
Acquire(t) == lock = Free /\ lock' = t

\* `with self._lock:` left
Release(t) == lock' = Free

\* time passes, at any point of any call
Tick ==
    /\ clock < StartTime + MaxTime
    /\ clock' = clock + 1
    /\ UNCHANGED <<cache, cache_timestamps, lock, pc, arg, now, result, how,
                   computed, flushed>>
    /\ UNCHANGED <<rvars, avars, mvars, bvars, svars, pvars, tvars, nvars>>

---------------------------------------------------------------------------
(* _cached_run                                                             *)

\* line 62-63: take the lock and read the clock
cached_run_enter(t, c) ==
    /\ pc[t] = "idle"
    /\ Acquire(t)
    /\ pc' = [pc EXCEPT ![t] = "check"]
    /\ arg' = [arg EXCEPT ![t] = [c EXCEPT !.cache_key = KeyOf(c)]]
    /\ now' = [now EXCEPT ![t] = clock]
    /\ UNCHANGED <<clock, cache, cache_timestamps, result, how, computed, flushed>>
    /\ UNCHANGED <<rvars, avars, mvars, bvars, svars, pvars, tvars, nvars>>

\* a staleness test that also accepts an entry exactly TTL old
FreshLate(t) ==
    LET k == arg[t].cache_key
        timestamp == IF k \in DOMAIN cache_timestamps THEN cache_timestamps[k] ELSE 0
    IN  /\ arg[t].use_cache
        /\ k \in DOMAIN cache
        /\ now[t] - timestamp <= cache_ttl

\* line 66-68: the entry exists and is younger than the TTL
Fresh(t) ==
    LET k == arg[t].cache_key
        timestamp == IF k \in DOMAIN cache_timestamps THEN cache_timestamps[k] ELSE 0
    IN  /\ arg[t].use_cache
        /\ k \in DOMAIN cache
        /\ now[t] - timestamp < cache_ttl

\* line 66-70: answered from the cache (`return self._cache[cache_key]`)
cached_run_hit(t) ==
    /\ pc[t] = "check"
    /\ Fresh(t)
    /\ result' = [result EXCEPT ![t] = cache[arg[t].cache_key]]
    /\ how' = [how EXCEPT ![t] = "cached"]
    /\ pc' = [pc EXCEPT ![t] = "ret"]
    /\ UNCHANGED <<clock, cache, cache_timestamps, lock, arg, now, computed, flushed>>
    /\ UNCHANGED <<rvars, avars, mvars, bvars, svars, pvars, tvars, nvars>>

\* line 66-72: no usable entry, go on to the command
cached_run_miss(t) ==
    /\ pc[t] = "check"
    /\ ~Fresh(t)
    /\ pc' = [pc EXCEPT ![t] = "run"]
    /\ UNCHANGED <<clock, cache, cache_timestamps, lock, arg, now, result, how,
                   computed, flushed>>
    /\ UNCHANGED <<rvars, avars, mvars, bvars, svars, pvars, tvars, nvars>>

\* line 73: _run_command(command) returns some output of the command
cached_run_execute(t) ==
    /\ pc[t] = "run"
    /\ \E out \in OutputsOf(arg[t].command) :
          /\ result' = [result EXCEPT ![t] = out]
          /\ computed' = IF arg[t].use_cache
                          THEN [computed EXCEPT ![arg[t].cache_key] =
                                   [at |-> now[t], val |-> out, by |-> t]]
                          ELSE computed
    /\ how' = [how EXCEPT ![t] = "executed"]
    /\ flushed' = flushed \ {arg[t].cache_key}
    /\ pc' = [pc EXCEPT ![t] = "store"]
    /\ UNCHANGED <<clock, cache, cache_timestamps, lock, arg, now>>
    /\ UNCHANGED <<rvars, avars, mvars, bvars, svars, pvars, tvars, nvars>>

\* a store that files the result under the command instead of the key
StoreKeyCommand(t) == arg[t].command

\* line 77-78: the entry is stored under cache_key
StoreKey(t) == arg[t].cache_key

\* line 76-77: self._cache[cache_key] = result
cached_run_store(t) ==
    /\ pc[t] = "store"
    /\ arg[t].use_cache
    /\ cache' = Put(cache, StoreKey(t), result[t])
    /\ pc' = [pc EXCEPT ![t] = "stamp"]
    /\ UNCHANGED <<clock, cache_timestamps, lock, arg, now, result, how,
                   computed, flushed>>
    /\ UNCHANGED <<rvars, avars, mvars, bvars, svars, pvars, tvars, nvars>>

\* line 78: self._cache_timestamps[cache_key] = now
cached_run_stamp(t) ==
    /\ pc[t] = "stamp"
    /\ cache_timestamps' = Put(cache_timestamps, StoreKey(t), now[t])
    /\ pc' = [pc EXCEPT ![t] = "ret"]
    /\ UNCHANGED <<clock, cache, lock, arg, now, result, how, computed, flushed>>
    /\ UNCHANGED <<rvars, avars, mvars, bvars, svars, pvars, tvars, nvars>>

\* line 76: use_cache is false, nothing is stored
cached_run_nostore(t) ==
    /\ pc[t] = "store"
    /\ ~arg[t].use_cache
    /\ pc' = [pc EXCEPT ![t] = "ret"]
    /\ UNCHANGED <<clock, cache, cache_timestamps, lock, arg, now, result, how,
                   computed, flushed>>
    /\ UNCHANGED <<rvars, avars, mvars, bvars, svars, pvars, tvars, nvars>>

\* line 70, 80: `return` leaves the `with` block; the locals are gone
cached_run_return(t) ==
    /\ pc[t] = "ret"
    /\ Release(t)
    /\ pc' = [pc EXCEPT ![t] = "idle"]
    /\ arg' = [arg EXCEPT ![t] = NoArg]
    /\ now' = [now EXCEPT ![t] = 0]
    /\ result' = [result EXCEPT ![t] = NoOutput]
    /\ how' = [how EXCEPT ![t] = None]
    /\ UNCHANGED <<clock, cache, cache_timestamps, computed, flushed>>
    /\ UNCHANGED <<rvars, avars, mvars, bvars, svars, pvars, tvars, nvars>>

---------------------------------------------------------------------------
(* invalidate_cache                                                        *)

\* line 88: take the lock
invalidate_enter(t, key) ==
    /\ pc[t] = "idle"
    /\ Acquire(t)
    /\ pc' = [pc EXCEPT ![t] = "inv"]
    /\ arg' = [arg EXCEPT ![t] = [NoArg EXCEPT !.cache_key = key]]
    /\ UNCHANGED <<clock, cache, cache_timestamps, now, result, how, computed, flushed>>
    /\ UNCHANGED <<rvars, avars, mvars, bvars, svars, pvars, tvars, nvars>>

\* an invalidation that keeps an entry still within its TTL
DropValueIfStale(key) ==
    IF key = None
    THEN EmptyMap
    ELSE IF key \in DOMAIN cache_timestamps
            /\ clock - cache_timestamps[key] < cache_ttl
         THEN cache
         ELSE Remove(cache, key)

\* line 89-93: self._cache.clear() / del self._cache[key]
DropValue(key) == IF key = None THEN EmptyMap ELSE Remove(cache, key)

\* line 89-90, 92-93: the value map first
invalidate_values(t) ==
    /\ pc[t] = "inv"
    /\ arg[t].cache_key = None \/ arg[t].cache_key \in DOMAIN cache
    /\ cache' = DropValue(arg[t].cache_key)
    /\ pc' = [pc EXCEPT ![t] = "inv_stamps"]
    /\ UNCHANGED <<clock, cache_timestamps, lock, arg, now, result, how,
                   computed, flushed>>
    /\ UNCHANGED <<rvars, avars, mvars, bvars, svars, pvars, tvars, nvars>>

\* the keys an invalidate_cache(key) call covers
Covered(key) == IF key = None THEN Keys ELSE {key}

\* line 91, 94-95: then the timestamp table; leave the lock
invalidate_stamps(t) ==
    /\ pc[t] = "inv_stamps"
    /\ cache_timestamps' =
          IF arg[t].cache_key = None
          THEN EmptyMap
          ELSE Remove(cache_timestamps, arg[t].cache_key)
    /\ flushed' = flushed \cup Covered(arg[t].cache_key)
    /\ computed' = [k \in Keys |->
                      IF k \in Covered(arg[t].cache_key)
                      THEN NoComputation ELSE computed[k]]
    /\ pc' = [pc EXCEPT ![t] = "idle"]
    /\ arg' = [arg EXCEPT ![t] = NoArg]
    /\ Release(t)
    /\ UNCHANGED <<clock, cache, now, result, how>>
    /\ UNCHANGED <<rvars, avars, mvars, bvars, svars, pvars, tvars, nvars>>

\* line 92: the key is not cached, nothing to delete; leave the lock
invalidate_absent(t) ==
    /\ pc[t] = "inv"
    /\ arg[t].cache_key # None
    /\ arg[t].cache_key \notin DOMAIN cache
    /\ flushed' = flushed \cup {arg[t].cache_key}
    /\ computed' = [computed EXCEPT ![arg[t].cache_key] = NoComputation]
    /\ pc' = [pc EXCEPT ![t] = "idle"]
    /\ arg' = [arg EXCEPT ![t] = NoArg]
    /\ Release(t)
    /\ UNCHANGED <<clock, cache, cache_timestamps, now, result, how>>
    /\ UNCHANGED <<rvars, avars, mvars, bvars, svars, pvars, tvars, nvars>>

---------------------------------------------------------------------------
(* Specifications of the cache                                             *)

Step(t) ==
    \/ \E c \in Calls : cached_run_enter(t, c)
    \/ cached_run_hit(t)
    \/ cached_run_miss(t)
    \/ cached_run_execute(t)
    \/ cached_run_store(t)
    \/ cached_run_stamp(t)
    \/ cached_run_nostore(t)
    \/ cached_run_return(t)
    \/ \E key \in InvalidateArgs : invalidate_enter(t, key)
    \/ invalidate_values(t)
    \/ invalidate_stamps(t)
    \/ invalidate_absent(t)

Init == InitCache /\ RetryAtRest /\ AudioAtRest /\ ManagerAtRest
    /\ GlobalAtRest /\ ServiceAtRest
    /\ ParserAtRest /\ SpeedtestAtRest /\ NotifyAtRest

\* several threads share one service instance
Next == Tick \/ \E t \in Threads : Step(t)

Spec == Init /\ [][Next]_vars

\* one caller thread
NextSeq == Tick \/ Step("t1")

SpecSeq == Init /\ [][NextSeq]_vars

---------------------------------------------------------------------------
(* with_retries: wrapper                                                   *)

\* line 70-73: start_time = time.time(); last_exception = None; first iteration
wrapper_enter ==
    /\ wpc = "start"
    /\ start_time' = rtime
    /\ last_exception' = NoException
    /\ attempt' = 0
    /\ wpc' = "loop"
    /\ UNCHANGED <<max_retries, base_delay, timeout, exceptions_to_catch, rtime,
                   delay, outcome, history, sleeps, last_action>>
    /\ UNCHANGED <<cvars, avars, mvars, bvars, svars, pvars, tvars, nvars>>

\* time passes between two statements of wrapper (beyond timeout + 1 more
\* time changes nothing the wrapper can see)
wrapper_preempted ==
    /\ wpc = "loop"
    /\ rtime - start_time <= timeout
    /\ rtime' = rtime + 1
    /\ UNCHANGED <<max_retries, base_delay, timeout, exceptions_to_catch, wpc,
                   start_time, last_exception, attempt, delay, outcome, history,
                   sleeps, last_action>>
    /\ UNCHANGED <<cvars, avars, mvars, bvars, svars, pvars, tvars, nvars>>

\* a loop that gives up one attempt early
AttemptsShort == max_retries - 1

\* line 73: for attempt in range(max_retries)
Attempts == max_retries

\* line 75: time.time() - start_time > timeout
DeadlinePassed == rtime - start_time > timeout

\* line 75-78: the deadline check fails: raise last_exception, or TimeoutError
\* when there is none
deadline_raise ==
    /\ wpc = "loop"
    /\ attempt < Attempts
    /\ DeadlinePassed
    /\ outcome' = IF last_exception # NoException
                  THEN Raised(last_exception)
                  ELSE Raised(TimeoutError)
    /\ last_action' = "check"
    /\ wpc' = "done"
    /\ UNCHANGED <<max_retries, base_delay, timeout, exceptions_to_catch, rtime,
                   start_time, last_exception, attempt, delay, history, sleeps>>
    /\ UNCHANGED <<cvars, avars, mvars, bvars, svars, pvars, tvars, nvars>>

\* a wrapper that keeps the value and goes on with the loop
func_returns_goes_on(d) ==
    /\ wpc = "loop"
    /\ attempt < Attempts
    /\ ~DeadlinePassed
    /\ history' = Append(history, [kind |-> "returned", over |-> d > timeout])
    /\ rtime' = rtime + d
    /\ outcome' = Returned(Len(history) + 1)
    /\ last_action' = "attempt"
    /\ attempt' = attempt + 1
    /\ wpc' = IF attempt + 1 < Attempts THEN "loop" ELSE "done"
    /\ UNCHANGED <<max_retries, base_delay, timeout, exceptions_to_catch,
                   start_time, last_exception, delay, sleeps>>
    /\ UNCHANGED <<cvars, avars, mvars, bvars, svars, pvars, tvars, nvars>>

\* line 75, 80-81: the deadline check passes, func runs for d and returns;
\* wrapper returns its value
func_returns(d) ==
    /\ wpc = "loop"
    /\ attempt < Attempts
    /\ ~DeadlinePassed
    /\ history' = Append(history, [kind |-> "returned", over |-> d > timeout])
    /\ rtime' = rtime + d
    /\ outcome' = Returned(Len(history) + 1)
    /\ last_action' = "attempt"
    /\ wpc' = "done"
    /\ UNCHANGED <<max_retries, base_delay, timeout, exceptions_to_catch,
                   start_time, last_exception, attempt, delay, sleeps>>
    /\ UNCHANGED <<cvars, avars, mvars, bvars, svars, pvars, tvars, nvars>>

\* an except clause that catches every exception
CaughtAny(type) == TRUE

\* line 82: except exceptions_to_catch
Caught(type) == type \in exceptions_to_catch

\* a wrapper that sleeps after every failed attempt, the last one too
SleepAfterAny(a) == a < max_retries

\* line 85: if attempt < max_retries - 1
SleepAfter(a) == a < max_retries - 1

\* line 87: delay = base_delay * (2 ** attempt)
Backoff(a) == base_delay * Pow2(a)

\* line 87-90: the backoff, cut so that the sleep ends at the deadline
ClampedDelay(t, a) ==
    IF t + Backoff(a) - start_time > timeout
    THEN Max(0, timeout - (t - start_time))
    ELSE Backoff(a)

\* line 75, 80-91: the deadline check passes, func runs for d and raises an
\* exception of a caught type; the delay is computed when a sleep is due
\* (the local `delay` is dead outside line 87-91 and is kept at 0 there)
func_raises_caught(type, d) ==
    /\ wpc = "loop"
    /\ attempt < Attempts
    /\ ~DeadlinePassed
    /\ Caught(type)
    /\ history' = Append(history, [kind |-> type, over |-> d > timeout])
    /\ rtime' = rtime + d
    /\ last_exception' = ExceptionOf(type, Len(history) + 1)
    /\ last_action' = "attempt"
    /\ IF SleepAfter(attempt)
       THEN /\ delay' = ClampedDelay(rtime + d, attempt)
            /\ wpc' = "sleep"
            /\ attempt' = attempt
       ELSE /\ delay' = 0
            /\ wpc' = "loop"
            /\ attempt' = attempt + 1
    /\ UNCHANGED <<max_retries, base_delay, timeout, exceptions_to_catch,
                   start_time, outcome, sleeps>>
    /\ UNCHANGED <<cvars, avars, mvars, bvars, svars, pvars, tvars, nvars>>

\* line 75, 80-82: the deadline check passes, func runs for d and raises an
\* exception no except clause catches: it leaves wrapper
func_raises_uncaught(type, d) ==
    /\ wpc = "loop"
    /\ attempt < Attempts
    /\ ~DeadlinePassed
    /\ ~Caught(type)
    /\ history' = Append(history, [kind |-> type, over |-> d > timeout])
    /\ rtime' = rtime + d
    /\ outcome' = Raised(ExceptionOf(type, Len(history) + 1))
    /\ last_action' = "attempt"
    /\ wpc' = "done"
    /\ UNCHANGED <<max_retries, base_delay, timeout, exceptions_to_catch,
                   start_time, last_exception, attempt, delay, sleeps>>
    /\ UNCHANGED <<cvars, avars, mvars, bvars, svars, pvars, tvars, nvars>>

\* line 91: time.sleep(delay) takes delay + j; next iteration
wrapper_sleep(j) ==
    /\ wpc = "sleep"
    /\ rtime' = rtime + delay + j
    /\ sleeps' = sleeps + 1
    /\ last_action' = "sleep"
    /\ attempt' = attempt + 1
    /\ delay' = 0
    /\ wpc' = "loop"
    /\ UNCHANGED <<max_retries, base_delay, timeout, exceptions_to_catch,
                   start_time, last_exception, outcome, history>>
    /\ UNCHANGED <<cvars, avars, mvars, bvars, svars, pvars, tvars, nvars>>

\* line 93-97: the loop is over: raise last_exception, or RuntimeError when
\* there is none
retries_exhausted ==
    /\ wpc = "loop"
    /\ attempt >= Attempts
    /\ outcome' = IF last_exception # NoException
                  THEN Raised(last_exception)
                  ELSE Raised(RuntimeError)
    /\ wpc' = "done"
    /\ UNCHANGED <<max_retries, base_delay, timeout, exceptions_to_catch, rtime,
                   start_time, last_exception, attempt, delay, history, sleeps,
                   last_action>>
    /\ UNCHANGED <<cvars, avars, mvars, bvars, svars, pvars, tvars, nvars>>

InitR == InitCache /\ InitRetry /\ AudioAtRest /\ ManagerAtRest
    /\ GlobalAtRest /\ ServiceAtRest
    /\ ParserAtRest /\ SpeedtestAtRest /\ NotifyAtRest

NextRetry ==
    \/ wrapper_enter
    \/ wrapper_preempted
    \/ deadline_raise
    \/ \E d \in 0..MaxDur : func_returns(d)
    \/ \E type \in Raisable, d \in 0..MaxDur : func_raises_caught(type, d)
    \/ \E type \in Raisable, d \in 0..MaxDur : func_raises_uncaught(type, d)
    \/ \E j \in 0..MaxJitter : wrapper_sleep(j)
    \/ retries_exhausted

SpecRetry == InitR /\ [][NextRetry]_vars

---------------------------------------------------------------------------
(* AudioRouter: callbacks and the decorated setters                        *)

\* line 166-173
register_callback(cb) ==
    /\ apc = "idle"
    /\ callbacks' = IF \E i \in 1..Len(callbacks) : callbacks[i] = cb
                     THEN callbacks
                     ELSE Append(callbacks, cb)
    /\ UNCHANGED <<current_sink, sink_state_file, op, origin, signal, device_path,
                   apc, sinks, sources, success, callee, target, sattempt, sresult,
                   aoutcome, enumerated, trace, before>>
    /\ UNCHANGED <<cvars, rvars, mvars, bvars, svars, pvars, tvars, nvars>>

\* line 175-182
unregister_callback(cb) ==
    /\ apc = "idle"
    /\ callbacks' = SelectSeq(callbacks, LAMBDA c : c # cb)
    /\ UNCHANGED <<current_sink, sink_state_file, op, origin, signal, device_path,
                   apc, sinks, sources, success, callee, target, sattempt, sresult,
                   aoutcome, enumerated, trace, before>>
    /\ UNCHANGED <<cvars, rvars, mvars, bvars, svars, pvars, tvars, nvars>>

\* a public method is entered: its history starts empty
Begin(name, from) ==
    /\ apc = "idle"
    /\ op' = name
    /\ origin' = from
    /\ aoutcome' = None
    /\ before' = [current_sink |-> current_sink, file |-> sink_state_file]

\* the decorated setter f is called with name: wrapper starts its loop.
\* The first deadline check follows the reading of start_time at once, so
\* it is the later checks that can find the five seconds used up.
CallSetter(f, name) ==
    /\ callee' = f
    /\ target' = name
    /\ sattempt' = 0
    /\ sresult' = "running"

\* line 82-92 of the wrapper: the attempt raised AudioRoutingError, which the
\* default exceptions_to_catch retries until the attempts are used up
AttemptFails(events) ==
    /\ trace' = trace \o events
    /\ sattempt' = sattempt + 1
    /\ sresult' = IF sattempt + 1 >= set_default_max_retries THEN "raised" ELSE "running"

\* line 75-77 of the wrapper: the deadline has passed before another attempt;
\* last_exception is the AudioRoutingError of the attempt before
setter_deadline ==
    /\ callee # None
    /\ sresult = "running"
    /\ sattempt >= 1
    /\ sresult' = "raised"
    /\ UNCHANGED <<callbacks, current_sink, sink_state_file, op, origin, signal,
                   device_path, apc, sinks, sources, success, callee, target,
                   sattempt, aoutcome, enumerated, trace, before>>
    /\ UNCHANGED <<cvars, rvars, mvars, bvars, svars, pvars, tvars, nvars>>

\* a check that takes every name for an enumerated one
ExistsAlways(name, list) == TRUE

\* line 336, 389, 448: any(sink.name == sink_name for sink in sinks)
Exists(name, list) == \E i \in 1..Len(list) : list[i] = name

\* a notification that stops at the first callback that raises
NotifyUntilRaise(cbs, name, raising) ==
    LET n == IF \E i \in 1..Len(cbs) : cbs[i] \in raising
             THEN CHOOSE i \in 1..Len(cbs) :
                     /\ cbs[i] \in raising
                     /\ \A j \in 1..(i - 1) : cbs[j] \notin raising
             ELSE Len(cbs)
    IN  [i \in 1..n |-> Ev("callback", name, cbs[i], cbs[i] \notin raising)]

\* line 355-359: every callback is called with the name; the ones in
\* `raising` raise, which is logged
Notify(cbs, name, raising) ==
    [i \in 1..Len(cbs) |-> Ev("callback", name, cbs[i], cbs[i] \notin raising)]

\* history of the enumeration of an attempt: an entry when the list was
\* returned and has the target among its names, nothing otherwise
Listing(what, listed, list) ==
    IF listed /\ target \in { list[i] : i \in 1..Len(list) }
    THEN <<Ev("listed_" \o what, target, "", TRUE)>>
    ELSE <<>>

\* line 421-426: _save_sink_state writes the name, or fails and logs
SaveSinkState(name, saved) == IF saved THEN FileWith(name) ELSE sink_state_file

\* a set_default_sink that assigns current_sink before it runs the command
CurrentSinkEager(applied, name) == name

\* line 343-351: current_sink is assigned after subprocess.run returned; a
\* command that raises leaves it as it was
CurrentSinkAfter(applied, name) == IF applied THEN name ELSE current_sink

\* a set_default_sink that notifies before it updates and saves
AppliedNotifyFirst(cbs, name, saved, raising) ==
    Notify(cbs, name, raising)
    \o <<Ev("current_sink", name, "", TRUE), Ev("save", name, "", saved)>>

\* line 350-359: what follows the command that succeeded: current_sink is
\* assigned, the file is written, the callbacks are called
Applied(cbs, name, saved, raising) ==
    <<Ev("current_sink", name, "", TRUE), Ev("save", name, "", saved)>>
    \o Notify(cbs, name, raising)

\* line 333-371: one invocation of set_default_sink by its wrapper.
\* list_sinks fails or returns a list; the command fails or succeeds. The
\* history takes the enumerations that had the target, the commands run, the
\* write of the file and the callbacks.
set_default_sink_attempt ==
    /\ callee = "set_default_sink"
    /\ sresult = "running"
    /\ sattempt < set_default_max_retries
    /\ \E listed \in BOOLEAN, list \in SinkLists, applied \in BOOLEAN,
          saved \in BOOLEAN, raising \in SUBSET CallbackIds :
          LET command == Ev("apply_sink", target, "", applied)
          IN  IF ~listed \/ ~Exists(target, list)
              THEN /\ AttemptFails(Listing("sinks", listed, list))
                   /\ UNCHANGED <<current_sink, sink_state_file>>
              ELSE IF ~applied
              THEN /\ AttemptFails(Listing("sinks", listed, list) \o <<command>>)
                   /\ current_sink' = CurrentSinkAfter(applied, target)
                   /\ UNCHANGED sink_state_file
              ELSE /\ current_sink' = CurrentSinkAfter(applied, target)
                   /\ sink_state_file' = SaveSinkState(target, saved)
                   /\ trace' = trace \o Listing("sinks", listed, list)
                                     \o <<command>>
                                     \o Applied(callbacks, target, saved, raising)
                   /\ sresult' = "returned"
                   /\ UNCHANGED sattempt
    /\ UNCHANGED <<callbacks, op, origin, signal, device_path, apc, sinks, sources,
                   success, callee, target, aoutcome, enumerated, before>>
    /\ UNCHANGED <<cvars, rvars, mvars, bvars, svars, pvars, tvars, nvars>>

\* line 386-413: one invocation of set_default_source by its wrapper
set_default_source_attempt ==
    /\ callee = "set_default_source"
    /\ sresult = "running"
    /\ sattempt < set_default_max_retries
    /\ \E listed \in BOOLEAN, list \in SourceLists, applied \in BOOLEAN :
          LET command == Ev("apply_source", target, "", applied)
          IN  IF ~listed \/ ~Exists(target, list)
              THEN AttemptFails(Listing("sources", listed, list))
              ELSE IF ~applied
              THEN AttemptFails(Listing("sources", listed, list) \o <<command>>)
              ELSE /\ trace' = trace \o Listing("sources", listed, list) \o <<command>>
                   /\ sresult' = "returned"
                   /\ UNCHANGED sattempt
    /\ UNCHANGED <<callbacks, current_sink, sink_state_file, op, origin, signal,
                   device_path, apc, sinks, sources, success, callee, target,
                   aoutcome, enumerated, before>>
    /\ UNCHANGED <<cvars, rvars, mvars, bvars, svars, pvars, tvars, nvars>>

\* a caller calls set_default_sink(name)
set_default_sink_called(name) ==
    /\ Begin("set_default_sink", "caller")
    /\ CallSetter("set_default_sink", name)
    /\ apc' = "setter"
    /\ UNCHANGED <<callbacks, current_sink, sink_state_file, signal, device_path,
                   sinks, sources, success, enumerated, trace>>
    /\ UNCHANGED <<cvars, rvars, mvars, bvars, svars, pvars, tvars, nvars>>

\* a caller calls set_default_source(name)
set_default_source_called(name) ==
    /\ Begin("set_default_source", "caller")
    /\ CallSetter("set_default_source", name)
    /\ apc' = "setter"
    /\ UNCHANGED <<callbacks, current_sink, sink_state_file, signal, device_path,
                   sinks, sources, success, enumerated, trace>>
    /\ UNCHANGED <<cvars, rvars, mvars, bvars, svars, pvars, tvars, nvars>>

\* line 362 / line 340, 365, 371 and the wrapper's raise: the caller gets
\* True or the AudioRoutingError
setter_ends ==
    /\ op \in {"set_default_sink", "set_default_source"}
    /\ apc = "setter"
    /\ sresult \in {"returned", "raised"}
    /\ aoutcome' = IF sresult = "returned" THEN "True" ELSE "AudioRoutingError"
    /\ apc' = "done"
    /\ UNCHANGED <<callbacks, current_sink, sink_state_file, op, origin, signal,
                   device_path, sinks, sources, success, callee, target, sattempt,
                   sresult, enumerated, trace, before>>
    /\ UNCHANGED <<cvars, rvars, mvars, bvars, svars, pvars, tvars, nvars>>

---------------------------------------------------------------------------
(* AudioRouter: restore_saved_sink and the two switches                    *)

\* the method returns value
Return(value) ==
    /\ aoutcome' = value
    /\ apc' = "done"

\* line 434-454: the file is looked at, then the sinks; the saved sink is
\* handed to set_default_sink only if it is listed
restore_saved_sink_called ==
    /\ Begin("restore_saved_sink", "caller")
    /\ \E listed \in BOOLEAN, list \in SinkLists :
          LET saved_sink == strip(sink_state_file.text)
          IN  IF ~sink_state_file.exists \/ saved_sink = <<>>
              THEN /\ Return("False")
                   /\ UNCHANGED <<sinks, callee, target, sattempt, sresult,
                                  enumerated, trace>>
              ELSE IF ~listed
              THEN /\ Return("False")
                   /\ enumerated' = <<Enum("sinks", FALSE, <<>>)>>
                   /\ UNCHANGED <<sinks, callee, target, sattempt, sresult, trace>>
              ELSE IF ~Exists(saved_sink, list)
              THEN /\ Return("False")
                   /\ sinks' = list
                   /\ enumerated' = <<Enum("sinks", TRUE, list)>>
                   /\ UNCHANGED <<callee, target, sattempt, sresult, trace>>
              ELSE /\ CallSetter("set_default_sink", saved_sink)
                   /\ apc' = "setter"
                   /\ sinks' = list
                   /\ enumerated' = <<Enum("sinks", TRUE, list)>>
                   /\ trace' = <<Ev("set_default_sink", saved_sink, "", TRUE)>>
                   /\ UNCHANGED aoutcome
    /\ UNCHANGED <<callbacks, current_sink, sink_state_file, signal, device_path,
                   sources, success>>
    /\ UNCHANGED <<cvars, rvars, mvars, bvars, svars, pvars, tvars, nvars>>

\* a restore that lets the exception of set_default_sink through
RestoredOrRaises(ended) == IF ended = "returned" THEN "True" ELSE "AudioRoutingError"

\* line 454-457: the result of set_default_sink is returned; its exception
\* is logged and False is returned
Restored(ended) == IF ended = "returned" THEN "True" ELSE "False"

restore_saved_sink_ends ==
    /\ op = "restore_saved_sink"
    /\ apc = "setter"
    /\ sresult \in {"returned", "raised"}
    /\ Return(Restored(sresult))
    /\ UNCHANGED <<callbacks, current_sink, sink_state_file, op, origin, signal,
                   device_path, sinks, sources, success, callee, target, sattempt,
                   sresult, enumerated, trace, before>>
    /\ UNCHANGED <<cvars, rvars, mvars, bvars, svars, pvars, tvars, nvars>>

\* line 479-480: the Bluetooth entries of a list, in its order
bluetooth_of(list) == SelectSeq(list, is_bluetooth)

\* line 528-529: the other entries of a list, in its order
regular_of(list) == SelectSeq(list, LAMBDA name : ~is_bluetooth(name))

\* the entries the method in progress is after
Candidates(list) ==
    IF op = "switch_to_bluetooth_audio" THEN bluetooth_of(list) ELSE regular_of(list)

\* a choice of the last candidate
PickLast(list) == list[Len(list)]

\* line 497, 504, 533, 540: bluetooth_sinks[0] and the like
Pick(list) == list[1]

\* line 459-472: switch_to_bluetooth_audio(device_path) is entered
EnterSwitchToBluetooth(path, from) ==
    /\ Begin("switch_to_bluetooth_audio", from)
    /\ device_path' = path
    /\ success' = FALSE
    /\ apc' = "enumerate"

\* a caller calls switch_to_bluetooth_audio(path)
switch_to_bluetooth_audio_called(path) ==
    /\ EnterSwitchToBluetooth(path, "caller")
    /\ UNCHANGED <<callbacks, current_sink, sink_state_file, signal, sinks, sources,
                   callee, target, sattempt, sresult, enumerated, trace>>
    /\ UNCHANGED <<cvars, rvars, mvars, bvars, svars, pvars, tvars, nvars>>

\* line 514-522: a caller calls switch_to_default_audio()
switch_to_default_audio_called ==
    /\ Begin("switch_to_default_audio", "caller")
    /\ success' = FALSE
    /\ apc' = "enumerate"
    /\ UNCHANGED <<callbacks, current_sink, sink_state_file, signal, device_path,
                   sinks, sources, callee, target, sattempt, sresult, enumerated,
                   trace>>
    /\ UNCHANGED <<cvars, rvars, mvars, bvars, svars, pvars, tvars, nvars>>

\* one round of list_sinks() then list_sources(); an enumeration that raises
\* ends the method with False (line 510-512, 546-548)
Enumerate(listed, list, olisted, olist, onward) ==
    IF ~listed
    THEN /\ enumerated' = Append(enumerated, Enum("sinks", FALSE, <<>>))
         /\ Return("False")
         /\ UNCHANGED <<sinks, sources>>
    ELSE IF ~olisted
    THEN /\ enumerated' = enumerated \o <<Enum("sinks", TRUE, list),
                                         Enum("sources", FALSE, <<>>)>>
         /\ Return("False")
         /\ sinks' = list
         /\ UNCHANGED sources
    ELSE /\ enumerated' = enumerated \o <<Enum("sinks", TRUE, list),
                                         Enum("sources", TRUE, olist)>>
         /\ sinks' = list
         /\ sources' = olist
         /\ onward

\* a switch that gives up after the first enumeration
MayRetryNever(position) == FALSE

\* line 482-487: only the first enumeration is followed by a retry
MayRetry(position) == position = "enumerate"

\* line 475-493: the enumeration, and the one retry when it has no
\* Bluetooth sink and no Bluetooth source
switch_to_bluetooth_audio_enumerate ==
    /\ op = "switch_to_bluetooth_audio"
    /\ apc \in {"enumerate", "retry"}
    /\ \E listed \in BOOLEAN, list \in SinkLists,
          olisted \in BOOLEAN, olist \in SourceLists :
          Enumerate(listed, list, olisted, olist,
                    IF bluetooth_of(list) = <<>> /\ bluetooth_of(olist) = <<>>
                    THEN IF MayRetry(apc)
                         THEN apc' = "retry" /\ UNCHANGED aoutcome
                         ELSE Return("False")
                    ELSE apc' = "output" /\ UNCHANGED aoutcome)
    /\ UNCHANGED <<callbacks, current_sink, sink_state_file, op, origin, signal,
                   device_path, success, callee, target, sattempt, sresult, trace,
                   before>>
    /\ UNCHANGED <<cvars, rvars, mvars, bvars, svars, pvars, tvars, nvars>>

\* line 524-529: the enumeration of switch_to_default_audio
switch_to_default_audio_enumerate ==
    /\ op = "switch_to_default_audio"
    /\ apc = "enumerate"
    /\ \E listed \in BOOLEAN, list \in SinkLists,
          olisted \in BOOLEAN, olist \in SourceLists :
          Enumerate(listed, list, olisted, olist,
                    apc' = "output" /\ UNCHANGED aoutcome)
    /\ UNCHANGED <<callbacks, current_sink, sink_state_file, op, origin, signal,
                   device_path, success, callee, target, sattempt, sresult, trace,
                   before>>
    /\ UNCHANGED <<cvars, rvars, mvars, bvars, svars, pvars, tvars, nvars>>

\* line 496-498, 532-534: the output is switched if there is a candidate
switch_output ==
    /\ op \in {"switch_to_bluetooth_audio", "switch_to_default_audio"}
    /\ apc = "output"
    /\ IF Candidates(sinks) # <<>>
       THEN /\ CallSetter("set_default_sink", Pick(Candidates(sinks)))
            /\ trace' = Append(trace, Ev("set_default_sink", Pick(Candidates(sinks)), "", TRUE))
            /\ apc' = "output_setter"
       ELSE /\ apc' = "input"
            /\ UNCHANGED <<callee, target, sattempt, sresult, trace>>
    /\ UNCHANGED <<callbacks, current_sink, sink_state_file, op, origin, signal,
                   device_path, sinks, sources, success, aoutcome, enumerated, before>>
    /\ UNCHANGED <<cvars, rvars, mvars, bvars, svars, pvars, tvars, nvars>>

\* line 499-500, 535-536: set_default_sink returned
switch_output_returns ==
    /\ apc = "output_setter"
    /\ sresult = "returned"
    /\ success' = TRUE
    /\ apc' = "input"
    /\ UNCHANGED <<callbacks, current_sink, sink_state_file, op, origin, signal,
                   device_path, sinks, sources, callee, target, sattempt, sresult,
                   aoutcome, enumerated, trace, before>>
    /\ UNCHANGED <<cvars, rvars, mvars, bvars, svars, pvars, tvars, nvars>>

\* line 510-512, 546-548: set_default_sink or set_default_source raised; the
\* exception is logged and False is returned
switch_setter_raises ==
    /\ apc \in {"output_setter", "input_setter"}
    /\ sresult = "raised"
    /\ Return("False")
    /\ UNCHANGED <<callbacks, current_sink, sink_state_file, op, origin, signal,
                   device_path, sinks, sources, success, callee, target, sattempt,
                   sresult, enumerated, trace, before>>
    /\ UNCHANGED <<cvars, rvars, mvars, bvars, svars, pvars, tvars, nvars>>

\* line 503-505, 539-541: the input is switched if there is a candidate;
\* with none the method returns success (line 509, 545)
switch_input ==
    /\ op \in {"switch_to_bluetooth_audio", "switch_to_default_audio"}
    /\ apc = "input"
    /\ IF Candidates(sources) # <<>>
       THEN /\ CallSetter("set_default_source", Pick(Candidates(sources)))
            /\ trace' = Append(trace, Ev("set_default_source", Pick(Candidates(sources)), "", TRUE))
            /\ apc' = "input_setter"
            /\ UNCHANGED aoutcome
       ELSE /\ Return(IF success THEN "True" ELSE "False")
            /\ UNCHANGED <<callee, target, sattempt, sresult, trace>>
    /\ UNCHANGED <<callbacks, current_sink, sink_state_file, op, origin, signal,
                   device_path, sinks, sources, success, enumerated, before>>
    /\ UNCHANGED <<cvars, rvars, mvars, bvars, svars, pvars, tvars, nvars>>

\* line 506-509, 542-545: set_default_source returned; success is returned
switch_input_returns ==
    /\ apc = "input_setter"
    /\ sresult = "returned"
    /\ success' = TRUE
    /\ Return("True")
    /\ UNCHANGED <<callbacks, current_sink, sink_state_file, op, origin, signal,
                   device_path, sinks, sources, callee, target, sattempt, sresult,
                   enumerated, trace, before>>
    /\ UNCHANGED <<cvars, rvars, mvars, bvars, svars, pvars, tvars, nvars>>

---------------------------------------------------------------------------
(* BluetoothManager._on_device_property_changed                            *)

\* a handler that reroutes on every change of Connected
ConnectedChanged(interface, changed) ==
    interface = BLUEZ_DEVICE_INTERFACE /\ "Connected" \in DOMAIN changed

\* line 634-638: the signal is of a device and says Connected is true
BecameConnected(interface, changed) ==
    /\ interface = BLUEZ_DEVICE_INTERFACE
    /\ "Connected" \in DOMAIN changed
    /\ changed["Connected"]

\* line 631-642: the handler of PropertiesChanged
on_device_property_changed(interface, changed, path) ==
    /\ apc = "idle"
    /\ signal' = [interface |-> interface, changed |-> changed, path |-> path]
    /\ IF BecameConnected(interface, changed)
       THEN /\ EnterSwitchToBluetooth(path, "signal")
       ELSE /\ Begin("on_device_property_changed", "signal")
            /\ Return("returned")
            /\ UNCHANGED <<device_path, success>>
    /\ UNCHANGED <<callbacks, current_sink, sink_state_file, sinks, sources, callee,
                   target, sattempt, sresult, enumerated, trace>>
    /\ UNCHANGED <<cvars, rvars, mvars, bvars, svars, pvars, tvars, nvars>>

\* the method has returned to its caller; its locals are gone
method_returns ==
    /\ apc = "done"
    /\ apc' = "idle"
    /\ op' = None
    /\ origin' = None
    /\ signal' = NoSignal
    /\ device_path' = None
    /\ sinks' = <<>>
    /\ sources' = <<>>
    /\ success' = FALSE
    /\ callee' = None
    /\ target' = <<>>
    /\ sattempt' = 0
    /\ sresult' = None
    /\ aoutcome' = None
    /\ enumerated' = <<>>
    /\ trace' = <<>>
    /\ before' = NoSnapshot
    /\ UNCHANGED <<callbacks, current_sink, sink_state_file>>
    /\ UNCHANGED <<cvars, rvars, mvars, bvars, svars, pvars, tvars, nvars>>

InitA == InitCache /\ RetryAtRest /\ InitAudio /\ ManagerAtRest
    /\ GlobalAtRest /\ ServiceAtRest
    /\ ParserAtRest /\ SpeedtestAtRest /\ NotifyAtRest

\* the router used by callers: subscriptions, the setters, the restore
NextAudio ==
    \/ \E cb \in CallbackIds : register_callback(cb)
    \/ \E cb \in CallbackIds : unregister_callback(cb)
    \/ setter_deadline
    \/ set_default_sink_attempt
    \/ set_default_source_attempt
    \/ \E name \in SinkNames : set_default_sink_called(name)
    \/ \E name \in SourceNames : set_default_source_called(name)
    \/ setter_ends
    \/ restore_saved_sink_called
    \/ restore_saved_sink_ends
    \/ method_returns

SpecAudio == InitA /\ [][NextAudio]_vars

\* the router of a manager: the switches, called or triggered by a signal
NextSwitch ==
    \/ setter_deadline
    \/ set_default_sink_attempt
    \/ set_default_source_attempt
    \/ \E path \in DevicePaths : switch_to_bluetooth_audio_called(path)
    \/ switch_to_default_audio_called
    \/ switch_to_bluetooth_audio_enumerate
    \/ switch_to_default_audio_enumerate
    \/ switch_output
    \/ switch_output_returns
    \/ switch_setter_raises
    \/ switch_input
    \/ switch_input_returns
    \/ \E interface \in Interfaces, changed \in ChangedProperties, path \in DevicePaths :
          on_device_property_changed(interface, changed, path)
    \/ method_returns

\* the four methods that can change the sink, called one after another on
\* one router
NextRouting ==
    \/ NextSwitch
    \/ \E name \in SinkNames : set_default_sink_called(name)
    \/ setter_ends
    \/ restore_saved_sink_called
    \/ restore_saved_sink_ends

InitS == InitCache /\ RetryAtRest /\ InitAudioOfManager /\ ManagerAtRest
    /\ GlobalAtRest /\ ServiceAtRest
    /\ ParserAtRest /\ SpeedtestAtRest /\ NotifyAtRest

SpecSwitch == InitS /\ [][NextSwitch]_vars

SpecRouting == InitS /\ [][NextRouting]_vars

---------------------------------------------------------------------------
(* BluetoothManager: connect_device_async / disconnect_device_async        *)

\* a worker that calls the completion callback itself
CallOnWorker(w, value) ==
    /\ invoked' = Append(invoked, Invocation(w, value, w))
    /\ handed' = [handed EXCEPT ![w] = Append(@, value)]
    /\ UNCHANGED idle_queue

\* line 922, 956, 985, 1042, 1089: GLib.idle_add(lambda: callback(value))
IdleAdd(w, value) ==
    /\ idle_queue' = Append(idle_queue, Closure(w, value))
    /\ handed' = [handed EXCEPT ![w] = Append(@, value)]
    /\ UNCHANGED invoked

\* line 497, 535 and 355-359: a switch that finds a sink of its class and
\* applies it calls set_default_sink, which calls the callbacks of the router
\* in the thread that called the switch
NotifiedBy(thread, switched) ==
    IF switched
    THEN notified \cup {[cb |-> cb, thread |-> thread] : cb \in RoutingSubscribers}
    ELSE notified

\* worker w goes on to position p
Goto(w, p) == wk' = [wk EXCEPT ![w] = p]

\* worker w has performed step
Did(w, step) == did' = [did EXCEPT ![w] = @ \cup {step}]

\* line 980-982, 1084-1086: an exception ends the try block; success = False,
\* then the callback is reported
Excepted(w) ==
    /\ wsuccess' = [wsuccess EXCEPT ![w] = FALSE]
    /\ route' = [route EXCEPT ![w] = "exception"]
    /\ Goto(w, "report")

\* line 909-917, 987-989: the thread of run_connect is started
connect_device_async(w) ==
    /\ wk[w] = "unstarted"
    /\ kind' = [kind EXCEPT ![w] = "connect"]
    /\ Goto(w, "bus_check")
    /\ UNCHANGED <<bus, is_connected, wsuccess, did, route, idle_queue, invoked, handed>>
    /\ UNCHANGED notified
    /\ UNCHANGED <<cvars, rvars, avars, bvars, svars, pvars, tvars, nvars>>

\* line 1029-1038, 1091-1093: the thread of run_disconnect is started
disconnect_device_async(w) ==
    /\ wk[w] = "unstarted"
    /\ kind' = [kind EXCEPT ![w] = "disconnect"]
    /\ Goto(w, "bus_check")
    /\ UNCHANGED <<bus, is_connected, wsuccess, did, route, idle_queue, invoked, handed>>
    /\ UNCHANGED notified
    /\ UNCHANGED <<cvars, rvars, avars, bvars, svars, pvars, tvars, nvars>>

\* line 920-923, 1040-1043: without a bus the callback gets False at once
run_bus_check(w) ==
    /\ wk[w] = "bus_check"
    /\ IF bus = None
       THEN /\ IdleAdd(w, FALSE)
            /\ route' = [route EXCEPT ![w] = "bus_none"]
            /\ Goto(w, "finished")
       ELSE /\ Goto(w, "interfaces")
            /\ UNCHANGED <<route, idle_queue, invoked, handed>>
    /\ UNCHANGED <<bus, kind, is_connected, wsuccess, did>>
    /\ UNCHANGED notified
    /\ UNCHANGED <<cvars, rvars, avars, bvars, svars, pvars, tvars, nvars>>

\* line 926-942, 1046-1065: the D-Bus interfaces and the device name; the
\* lookups can raise, the read of the name cannot (it has its own except)
run_interfaces(w) ==
    /\ wk[w] = "interfaces"
    /\ \E raised \in BOOLEAN :
          IF raised
          THEN Excepted(w)
          ELSE /\ Goto(w, IF kind[w] = "connect" THEN "Connect" ELSE "Disconnect")
               /\ UNCHANGED <<wsuccess, route>>
    /\ UNCHANGED <<bus, kind, is_connected, did, idle_queue, invoked, handed>>
    /\ UNCHANGED notified
    /\ UNCHANGED <<cvars, rvars, avars, bvars, svars, pvars, tvars, nvars>>

\* line 946-949: device.Connect() returns or raises; then the settle delay
run_connect_Connect(w) ==
    /\ wk[w] = "Connect"
    /\ Did(w, "Connect")
    /\ \E raised \in BOOLEAN :
          IF raised
          THEN Excepted(w)
          ELSE /\ Goto(w, "verify")
               /\ UNCHANGED <<wsuccess, route>>
    /\ UNCHANGED <<bus, kind, is_connected, idle_queue, invoked, handed>>
    /\ UNCHANGED notified
    /\ UNCHANGED <<cvars, rvars, avars, bvars, svars, pvars, tvars, nvars>>

\* a verification that never finds the device unconnected
NotConnectedIgnored(read) == FALSE

\* line 953-954: `if not is_connected`; a read that raised skips the test
NotConnected(read) == read = "false"

\* line 952-959: Connected is read again; false ends the worker with
\* callback(False), an exception of the read is only logged
run_connect_verify(w) ==
    /\ wk[w] = "verify"
    /\ \E read \in Reads :
          /\ is_connected' = [is_connected EXCEPT ![w] = read]
          /\ IF NotConnected(read)
             THEN /\ IdleAdd(w, FALSE)
                  /\ route' = [route EXCEPT ![w] = "not_confirmed"]
                  /\ Goto(w, "finished")
             ELSE /\ Goto(w, "battery")
                  /\ UNCHANGED <<route, idle_queue, invoked, handed>>
    /\ Did(w, "Get Connected")
    /\ UNCHANGED <<bus, kind, wsuccess>>
    /\ UNCHANGED notified
    /\ UNCHANGED <<cvars, rvars, avars, bvars, svars, pvars, tvars, nvars>>

\* line 962-968: get_device_battery, which returns a number or None
run_connect_battery(w) ==
    /\ wk[w] = "battery"
    /\ Did(w, "get_device_battery")
    /\ Goto(w, "notify")
    /\ UNCHANGED <<bus, kind, is_connected, wsuccess, route, idle_queue, invoked, handed>>
    /\ UNCHANGED notified
    /\ UNCHANGED <<cvars, rvars, avars, bvars, svars, pvars, tvars, nvars>>

\* line 971-973: send_notification("... connected."), which does not raise
run_connect_notify(w) ==
    /\ wk[w] = "notify"
    /\ kind[w] = "connect"
    /\ Did(w, "notify connected")
    /\ Goto(w, "switch")
    /\ UNCHANGED <<bus, kind, is_connected, wsuccess, route, idle_queue, invoked, handed>>
    /\ UNCHANGED notified
    /\ UNCHANGED <<cvars, rvars, avars, bvars, svars, pvars, tvars, nvars>>

\* line 976-978: switch_to_bluetooth_audio returns True or False, which is
\* dropped; success = True
run_connect_switch(w) ==
    /\ wk[w] = "switch"
    /\ kind[w] = "connect"
    /\ Did(w, "switch_to_bluetooth_audio")
    /\ \E switched \in BOOLEAN : notified' = NotifiedBy(w, switched)
    /\ wsuccess' = [wsuccess EXCEPT ![w] = TRUE]
    /\ route' = [route EXCEPT ![w] = "success"]
    /\ Goto(w, "report")
    /\ UNCHANGED <<bus, kind, is_connected, idle_queue, invoked, handed>>
    /\ UNCHANGED <<cvars, rvars, avars, bvars, svars, pvars, tvars, nvars>>

\* line 1069-1072: device.Disconnect() returns or raises; then the delay
run_disconnect_Disconnect(w) ==
    /\ wk[w] = "Disconnect"
    /\ Did(w, "Disconnect")
    /\ \E raised \in BOOLEAN :
          IF raised
          THEN Excepted(w)
          ELSE /\ Goto(w, "notify")
               /\ UNCHANGED <<wsuccess, route>>
    /\ UNCHANGED <<bus, kind, is_connected, idle_queue, invoked, handed>>
    /\ UNCHANGED notified
    /\ UNCHANGED <<cvars, rvars, avars, bvars, svars, pvars, tvars, nvars>>

\* line 1075-1077: send_notification("... disconnected.")
run_disconnect_notify(w) ==
    /\ wk[w] = "notify"
    /\ kind[w] = "disconnect"
    /\ Did(w, "notify disconnected")
    /\ Goto(w, "switch")
    /\ UNCHANGED <<bus, kind, is_connected, wsuccess, route, idle_queue, invoked, handed>>
    /\ UNCHANGED notified
    /\ UNCHANGED <<cvars, rvars, avars, bvars, svars, pvars, tvars, nvars>>

\* line 1080-1082: switch_to_default_audio; success = True
run_disconnect_switch(w) ==
    /\ wk[w] = "switch"
    /\ kind[w] = "disconnect"
    /\ Did(w, "switch_to_default_audio")
    /\ \E switched \in BOOLEAN : notified' = NotifiedBy(w, switched)
    /\ wsuccess' = [wsuccess EXCEPT ![w] = TRUE]
    /\ route' = [route EXCEPT ![w] = "success"]
    /\ Goto(w, "report")
    /\ UNCHANGED <<bus, kind, is_connected, idle_queue, invoked, handed>>
    /\ UNCHANGED <<cvars, rvars, avars, bvars, svars, pvars, tvars, nvars>>

\* line 985, 1089: GLib.idle_add(lambda: callback(success)); the thread ends
run_report(w) ==
    /\ wk[w] = "report"
    /\ IdleAdd(w, wsuccess[w])
    /\ Goto(w, "finished")
    /\ UNCHANGED <<bus, kind, is_connected, wsuccess, did, route>>
    /\ UNCHANGED notified
    /\ UNCHANGED <<cvars, rvars, avars, bvars, svars, pvars, tvars, nvars>>

\* an idle queue that runs every closure once
RequeueNever(queue, returned) == Tail(queue)

\* GLib.idle_add: the source is removed when its function returns a false
\* value and is kept, to be run again, when it returns a true one. The
\* function is `lambda: callback(value)`, which returns what callback returns
Requeue(queue, returned) ==
    IF returned THEN Append(Tail(queue), Head(queue)) ELSE Tail(queue)

\* the main loop is idle and runs the oldest closure: callback(value), which
\* returns a false value (None, False) or a true one
main_loop_runs_idle ==
    /\ idle_queue # <<>>
    /\ Len(invoked) < MaxInvocations
    /\ invoked' = Append(invoked, Invocation(Head(idle_queue).worker,
                                             Head(idle_queue).value, MainThread))
    /\ \E returned \in BOOLEAN : idle_queue' = Requeue(idle_queue, returned)
    /\ UNCHANGED <<bus, wk, kind, is_connected, wsuccess, did, route, handed>>
    /\ UNCHANGED notified
    /\ UNCHANGED <<cvars, rvars, avars, bvars, svars, pvars, tvars, nvars>>

Worker(w) ==
    \/ connect_device_async(w)
    \/ disconnect_device_async(w)
    \/ run_bus_check(w)
    \/ run_interfaces(w)
    \/ run_connect_Connect(w)
    \/ run_connect_verify(w)
    \/ run_connect_battery(w)
    \/ run_connect_notify(w)
    \/ run_connect_switch(w)
    \/ run_disconnect_Disconnect(w)
    \/ run_disconnect_notify(w)
    \/ run_disconnect_switch(w)
    \/ run_report(w)

InitM == InitCache /\ RetryAtRest /\ AudioAtRest /\ InitManager
    /\ GlobalAtRest /\ ServiceAtRest
    /\ ParserAtRest /\ SpeedtestAtRest /\ NotifyAtRest

NextAsync == main_loop_runs_idle \/ \E w \in Workers : Worker(w)

SpecAsync == InitM /\ [][NextAsync]_vars

---------------------------------------------------------------------------
(* get_bluetooth_manager, BluetoothManager.__init__ and _init_dbus         *)

\* line 1137-1140, 552-561: _manager is None: BluetoothManager(logging) sets
\* the fields to None, builds the AudioRouter and calls the decorated
\* _init_dbus
get_bluetooth_manager_called ==
    /\ gpc = "idle"
    /\ ~manager.made
    /\ wpc = "off"
    /\ wpc' = "start"
    /\ gpc' = "init"
    /\ UNCHANGED <<max_retries, base_delay, timeout, exceptions_to_catch, rtime,
                   start_time, last_exception, attempt, delay, outcome, history,
                   sleeps, last_action>>
    /\ UNCHANGED <<manager, bluezd, causes, met_failure, last_call, teardown>>
    /\ UNCHANGED <<cvars, avars, mvars, svars, pvars, tvars, nvars>>

\* an _init_dbus that lets the exception of the bus through
InitRaisesCause(cause) == cause

\* line 596-601: both except clauses of _init_dbus raise DBusInitError
InitRaises(cause) == "DBusInitError"

\* line 731-754: find_adapter inside _init_dbus: the first adapter object,
\* or "" when there is none or the lookup raises
FoundAdapter(reply) == IF bluezd = "up" /\ reply = "ok" THEN hci0 ELSE ""

\* line 73-97 around line 571-601: one iteration of the wrapper's loop runs
\* the body of _init_dbus; the body returns, or fails because of `cause` and
\* raises; a caught exception is followed by the backoff sleep and the next
\* iteration, any other leaves the wrapper. (The attempts are taken to end
\* within DBUS_INIT_TIMEOUT.)
init_dbus_attempt(cause, reply) ==
    /\ gpc = "init"
    /\ wpc = "loop"
    /\ attempt < Attempts
    /\ LET n == Len(history) + 1
           raised == InitRaises(cause)
       IN  IF cause = None
           THEN /\ manager' = Initialised(FoundAdapter(reply))
                /\ history' = Append(history, [kind |-> "returned", over |-> FALSE])
                /\ outcome' = Returned(n)
                /\ wpc' = "done"
                /\ UNCHANGED <<causes, last_exception, attempt, sleeps>>
           ELSE /\ causes' = Append(causes, cause)
                /\ history' = Append(history, [kind |-> raised, over |-> FALSE])
                /\ IF Caught(raised)
                   THEN /\ last_exception' = ExceptionOf(raised, n)
                        /\ attempt' = attempt + 1
                        /\ sleeps' = IF SleepAfter(attempt) THEN sleeps + 1 ELSE sleeps
                        /\ IF attempt + 1 < Attempts
                           THEN UNCHANGED <<outcome, wpc>>
                           ELSE /\ outcome' = Raised(ExceptionOf(raised, n))
                                /\ wpc' = "done"
                   ELSE /\ outcome' = Raised(ExceptionOf(raised, n))
                        /\ wpc' = "done"
                        /\ UNCHANGED <<last_exception, attempt, sleeps>>
                /\ UNCHANGED manager
    /\ last_action' = "attempt"
    /\ UNCHANGED <<max_retries, base_delay, timeout, exceptions_to_catch, rtime,
                   start_time, delay>>
    /\ UNCHANGED <<gpc, bluezd, met_failure, last_call, teardown>>
    /\ UNCHANGED <<cvars, avars, mvars, svars, pvars, tvars, nvars>>

\* line 1140-1150: the constructor returned: _manager is the new object; it
\* raised DBusInitError: _manager is the minimal manager; any other exception
\* leaves get_bluetooth_manager
get_bluetooth_manager_returns ==
    /\ gpc = "init"
    /\ wpc = "done"
    /\ IF outcome.kind = "returned"
       THEN /\ manager' = [manager EXCEPT !.made = TRUE]
            /\ gpc' = "returned"
            /\ \E loop \in {"stopped", "running"} : teardown' = Subscribed(loop)
       ELSE IF outcome.type = "DBusInitError"
            THEN /\ manager' = MinimalManager
                 /\ gpc' = "returned"
                 /\ teardown' = NoTeardown
            ELSE /\ manager' = NoManager
                 /\ gpc' = "raised"
                 /\ teardown' = NoTeardown
    /\ UNCHANGED <<bluezd, causes, met_failure, last_call>>
    /\ UNCHANGED <<cvars, rvars, avars, mvars, svars, pvars, tvars, nvars>>

\* the adapter is unplugged or plugged, the daemon stops or starts
bluez_changes(state) ==
    /\ gpc = "returned"
    /\ state # bluezd
    /\ bluezd' = state
    /\ UNCHANGED <<manager, gpc, causes, met_failure, last_call, teardown>>
    /\ UNCHANGED <<cvars, rvars, avars, mvars, svars, pvars, tvars, nvars>>

---------------------------------------------------------------------------
(* The public methods of BluetoothManager                                  *)

Bool(b) == IF b THEN "True" ELSE "False"

\* `not self.adapter or self.bus is None`
NotReady == manager.adapter = None \/ manager.bus = None

\* a handler that catches D-Bus errors only
ExceptDBusOnly(reply, value, fallback) ==
    IF reply = "ok"
    THEN [value |-> value, raised |-> None]
    ELSE IF reply = "DBusException"
         THEN [value |-> fallback, raised |-> None]
         ELSE [value |-> None, raised |-> reply]

\* try: ... return value / except Exception: log; return fallback
Except(reply, value, fallback) ==
    IF reply = "ok"
    THEN [value |-> value, raised |-> None]
    ELSE [value |-> fallback, raised |-> None]

\* the method `name` of _manager ends with r; `routed`: it called a method of
\* the audio router that changes the routing; `failed`: a bus call raised
Ends(name, r, routed, failed) ==
    /\ gpc = "returned"
    /\ last_call' = [op |-> name, value |-> r.value, raised |-> r.raised,
                     routed |-> routed, degraded |-> manager.bus = None,
                     lost |-> met_failure /\ bluezd # "up", failed |-> failed]
    /\ met_failure' = (met_failure \/ failed)
    /\ UNCHANGED <<manager, gpc, bluezd, causes, teardown>>
    /\ UNCHANGED <<cvars, rvars, avars, mvars, svars, pvars, tvars, nvars>>

\* line 1095-1096: return bool(self.adapter_path)
bluetooth_supported ==
    /\ manager.made
    /\ Ends("bluetooth_supported",
            [value |-> Bool(manager.adapter_path \notin {None, ""}), raised |-> None],
            FALSE, FALSE)

\* line 756-768
get_bluetooth_status ==
    IF NotReady
    THEN Ends("get_bluetooth_status", Except("ok", "False", "False"), FALSE, FALSE)
    ELSE \E reply \in ObjectReplies, powered \in BOOLEAN :
            Ends("get_bluetooth_status", Except(reply, Bool(powered), "False"),
                 FALSE, reply # "ok")

\* line 770-788
set_bluetooth_power(enabled) ==
    IF NotReady
    THEN Ends("set_bluetooth_power", Except("ok", "False", "False"), FALSE, FALSE)
    ELSE \E reply \in ObjectReplies :
            Ends("set_bluetooth_power", Except(reply, "True", "False"),
                 FALSE, reply # "ok")

\* line 790-823: the devices the daemon lists, "[]" when it lists none
get_devices ==
    IF NotReady
    THEN Ends("get_devices", Except("ok", "[]", "[]"), FALSE, FALSE)
    ELSE \E reply \in RootReplies,
            listed \in IF bluezd = "up" THEN {"[]", "[devices]"} ELSE {"[]"} :
            Ends("get_devices", Except(reply, listed, "[]"), FALSE, reply # "ok")

\* line 825-844
start_discovery ==
    IF NotReady \/ manager.adapter_path \in {None, ""}
    THEN Ends("start_discovery", Except("ok", "False", "False"), FALSE, FALSE)
    ELSE \E reply \in ObjectReplies :
            Ends("start_discovery", Except(reply, "True", "False"),
                 FALSE, reply # "ok")

\* line 846-865
stop_discovery ==
    IF NotReady \/ manager.adapter_path \in {None, ""}
    THEN Ends("stop_discovery", Except("ok", "False", "False"), FALSE, FALSE)
    ELSE \E reply \in ObjectReplies :
            Ends("stop_discovery", Except(reply, "True", "False"),
                 FALSE, reply # "ok")

\* line 867-907: Connect(), the alias, the battery, the notification, then
\* audio_router.switch_to_bluetooth_audio; a bus call that raises ends the
\* method before the switch
connect_device(path) ==
    IF manager.bus = None
    THEN Ends("connect_device", Except("ok", "False", "False"), FALSE, FALSE)
    ELSE \E reply \in ObjectReplies :
            Ends("connect_device", Except(reply, "True", "False"),
                 reply = "ok", reply # "ok")

\* line 991-1027: Disconnect(), the notification, then
\* audio_router.switch_to_default_audio
disconnect_device(path) ==
    IF manager.bus = None
    THEN Ends("disconnect_device", Except("ok", "False", "False"), FALSE, FALSE)
    ELSE \E reply \in ObjectReplies :
            Ends("disconnect_device", Except(reply, "True", "False"),
                 reply = "ok", reply # "ok")

\* line 909-989: the worker hands callback(False) to the main loop when
\* self.bus is None or a step raises, callback(True) after the switch
connect_device_async_call(path) ==
    IF manager.bus = None
    THEN Ends("connect_device_async", Except("ok", "callback(False)", None),
              FALSE, FALSE)
    ELSE \E reply \in ObjectReplies :
            Ends("connect_device_async",
                 Except(reply, "callback(True)", "callback(False)"),
                 reply = "ok", reply # "ok")

\* line 1029-1093
disconnect_device_async_call(path) ==
    IF manager.bus = None
    THEN Ends("disconnect_device_async", Except("ok", "callback(False)", None),
              FALSE, FALSE)
    ELSE \E reply \in ObjectReplies :
            Ends("disconnect_device_async",
                 Except(reply, "callback(True)", "callback(False)"),
                 reply = "ok", reply # "ok")

\* line 691-729: busctl get-property: a percentage, None when the property is
\* not there, -1 when the command fails
BusctlResults == {"percentage", "None", "-1"}

\* line 644-689: RuntimeError without a bus and any other exception give -1;
\* a D-Bus error or a device without the battery interface goes to busctl
get_device_battery(path) ==
    IF manager.bus = None
    THEN Ends("get_device_battery", Except("Exception", None, "-1"), FALSE, FALSE)
    ELSE \E reply \in ObjectReplies, busctl \in BusctlResults, direct \in BOOLEAN :
            Ends("get_device_battery",
                 IF reply = "DBusException"
                 THEN Except("ok", busctl, "-1")
                 ELSE Except(reply, IF direct THEN "percentage" ELSE busctl, "-1"),
                 FALSE, reply # "ok")

\* line 731-754, called on the manager
find_adapter ==
    IF manager.bus = None
    THEN Ends("find_adapter", Except("ok", "", ""), FALSE, FALSE)
    ELSE \E reply \in RootReplies :
            Ends("find_adapter", Except(reply, FoundAdapter(reply), ""),
                 FALSE, reply # "ok")

\* line 1114-1120, 280-298: pactl get-default-sink: the name, None when it is
\* empty or the command fails
get_current_audio_sink ==
    \E pactl \in {"ok", "Exception"}, name \in {"sink", "None"} :
        Ends("get_current_audio_sink", Except(pactl, name, "None"), FALSE, FALSE)

\* line 1122-1128, 428-457: restore_saved_sink returns what set_default_sink
\* returned, False when there is nothing to restore or anything raises
restore_last_sink ==
    \E router \in {"ok", "Exception"}, restored \in BOOLEAN :
        Ends("restore_last_sink", Except(router, Bool(restored), "False"),
             router = "ok" /\ restored, FALSE)

\* line 603-629: __del__ of the manager. `remove`, `receiver`, `quit`: what
\* signal_match.remove(), bus.remove_signal_receiver(...) and mainloop.quit()
\* do. Only remove_signal_receiver has a try of its own (line 613-620); an
\* exception of remove() or quit() goes to the handler of line 628, which
\* skips line 626-627.
__del__(remove, receiver, quit) ==
    /\ gpc = "returned"
    /\ manager.made
    /\ LET has_match == teardown.signal_match = "SignalMatch"
           remove_fails == has_match /\ remove = "Exception"
           has_bus == ~remove_fails /\ manager.bus # None
           running == ~remove_fails /\ teardown.mainloop = "running"
           quit_fails == running /\ quit = "Exception"
           completed == ~remove_fails /\ ~quit_fails
       IN  /\ teardown' =
                [signal_match |-> IF has_match /\ ~remove_fails
                                  THEN None ELSE teardown.signal_match,
                 mainloop |-> IF running /\ ~quit_fails
                              THEN "stopped" ELSE teardown.mainloop,
                 subscribed |-> /\ teardown.subscribed
                                /\ ~(has_match /\ ~remove_fails)
                                /\ ~(has_bus /\ receiver = "ok"),
                 ran |-> TRUE,
                 failed |-> IF remove_fails THEN "remove"
                            ELSE IF quit_fails THEN "quit"
                            ELSE IF has_bus /\ receiver = "Exception"
                                 THEN "remove_signal_receiver" ELSE None,
                 raised |-> None]
           /\ manager' = IF completed
                         THEN [manager EXCEPT !.adapter = None, !.bus = None]
                         ELSE manager
    /\ gpc' = "deleted"
    /\ UNCHANGED <<bluezd, causes, met_failure, last_call>>
    /\ UNCHANGED <<cvars, rvars, avars, mvars, svars, pvars, tvars, nvars>>

---------------------------------------------------------------------------
(* WiFiParser.parse_network_list, one line of the output                   *)

\* `needle in hay` of two strings: needle starts at position i or later
RECURSIVE InFrom(_, _, _)
InFrom(needle, hay, i) ==
    IF i + Len(needle) - 1 > Len(hay)
    THEN FALSE
    ELSE IF \A k \in 1..Len(needle) : hay[i + k - 1] = needle[k]
         THEN TRUE
         ELSE InFrom(needle, hay, i + 1)

In(needle, hay) == InFrom(needle, hay, 1)

Digits == {"0", "1", "2", "3", "4", "5", "6", "7", "8", "9"}

\* str.isdigit()
isdigit(str) == str # <<>> /\ \A k \in 1..Len(str) : str[k] \in Digits

DigitValue(c) == CHOOSE d \in 0..9 : ToString(d) = c

\* int(str) of a string of digits
RECURSIVE int(_)
int(str) ==
    IF str = <<>> THEN 0
    ELSE 10 * int(SubSeq(str, 1, Len(str) - 1)) + DigitValue(str[Len(str)])

\* a parser that looks for WPA3 first
SecurityTypeWPA3First(field) ==
    IF field = <<>> THEN "Open"
    ELSE IF In(WPA3, field) THEN "WPA3"
    ELSE IF In(WPA2, field) THEN "WPA2"
    ELSE IF In(WPA, field) THEN "WPA"
    ELSE IF In(WEP, field) THEN "WEP"
    ELSE "Open"

\* line 49-58: security_type of the third field
SecurityType(field) ==
    IF field = <<>> THEN "Open"
    ELSE IF In(WPA2, field) THEN "WPA2"
    ELSE IF In(WPA3, field) THEN "WPA3"
    ELSE IF In(WPA, field) THEN "WPA"
    ELSE IF In(WEP, field) THEN "WEP"
    ELSE "Open"

Skipped == [Unparsed EXCEPT !.state = "skipped"]

\* line 35-72: the body of the loop for one line: fewer than three fields
\* or an empty SSID skip the line, otherwise a WiFiNetwork is appended
parse_network_list ==
    /\ network.state = "unparsed"
    /\ parts # <<>>
    /\ network' =
          IF Len(parts) < 3 THEN Skipped
          ELSE IF parts[1] = <<>> THEN Skipped
          ELSE [state |-> "appended",
                ssid |-> parts[1],
                signal_strength |-> IF isdigit(parts[2]) THEN int(parts[2]) ELSE 0,
                security_type |-> SecurityType(parts[3]),
                connected |-> Len(parts) > 3 /\ parts[4] = <<"*">>]
    /\ UNCHANGED parts
    /\ UNCHANGED <<cvars, rvars, avars, mvars, bvars, svars, tvars, nvars>>

InitP == InitCache /\ RetryAtRest /\ AudioAtRest /\ ManagerAtRest
    /\ GlobalAtRest /\ ServiceAtRest
    /\ InitParser /\ SpeedtestAtRest /\ NotifyAtRest

NextParser == parse_network_list

SpecParser == InitP /\ [][NextParser]_vars

---------------------------------------------------------------------------
(* The loop of line 355-359 over self.callbacks, one callback per step. A  *)
(* for loop over a list keeps a position and reads the list itself at     *)
(* every step, so it sees what the callbacks do to the list.              *)

\* line 172-173: append unless already there
Register(list, cb) ==
    IF \E i \in 1..Len(list) : list[i] = cb THEN list ELSE Append(list, cb)

\* line 181-182: list.remove of a list without duplicates
Unregister(list, cb) == SelectSeq(list, LAMBDA c : c # cb)

\* the list after the callback did what it does
After(list, b) ==
    CASE b.kind = "register" -> Register(list, b.cb)
      [] b.kind = "unregister" -> Unregister(list, b.cb)
      [] b.kind = "again" -> Register(Unregister(list, b.cb), b.cb)
      [] OTHER -> list

\* line 355: the loop starts
notify_begin ==
    /\ npc = "idle"
    /\ npc' = "loop"
    /\ index' = 0
    /\ registered' = callbacks
    /\ called' = <<>>
    /\ UNCHANGED <<does, callbacks>>
    /\ UNCHANGED <<current_sink, sink_state_file, op, origin, signal, device_path,
                   apc, sinks, sources, success, callee, target, sattempt, sresult,
                   aoutcome, enumerated, trace, before>>
    /\ UNCHANGED <<cvars, rvars, mvars, bvars, svars, pvars, tvars>>

\* line 355-359: the iterator yields the entry at its position and moves
\* on; the callback is called; what it raises is logged
notify_next ==
    /\ npc = "loop"
    /\ index < Len(callbacks)
    /\ LET callback == callbacks[index + 1]
       IN  /\ called' = Append(called, callback)
           /\ callbacks' = After(callbacks, does[callback])
    /\ index' = index + 1
    /\ UNCHANGED <<npc, registered, does>>
    /\ UNCHANGED <<current_sink, sink_state_file, op, origin, signal, device_path,
                   apc, sinks, sources, success, callee, target, sattempt, sresult,
                   aoutcome, enumerated, trace, before>>
    /\ UNCHANGED <<cvars, rvars, mvars, bvars, svars, pvars, tvars>>

\* the iterator is at or past the end of the list: the loop ends
notify_end ==
    /\ npc = "loop"
    /\ index >= Len(callbacks)
    /\ npc' = "done"
    /\ UNCHANGED <<index, registered, called, does, callbacks>>
    /\ UNCHANGED <<current_sink, sink_state_file, op, origin, signal, device_path,
                   apc, sinks, sources, success, callee, target, sattempt, sresult,
                   aoutcome, enumerated, trace, before>>
    /\ UNCHANGED <<cvars, rvars, mvars, bvars, svars, pvars, tvars>>

\* a router with some callbacks registered, inside set_default_sink
InitN == InitCache /\ RetryAtRest /\ ManagerAtRest
    /\ GlobalAtRest /\ ServiceAtRest
    /\ ParserAtRest /\ SpeedtestAtRest /\ InitNotify
    /\ callbacks \in CallbackLists
    /\ current_sink = NoSink
    /\ sink_state_file = NoFile
    /\ apc = "off"
    /\ AudioLocals

NextNotify == notify_begin \/ notify_next \/ notify_end

SpecNotify == InitN /\ [][NextNotify]_vars

---------------------------------------------------------------------------
(* SpeedtestRunner: run_test, the thread it starts, cancel_test            *)

\* line 96-98, 242: a test is said to be running: return; otherwise start a
\* thread for run_test_thread. run_test does not assign is_running: the
\* thread does, at line 102
run_test ==
    /\ IF is_running
       THEN /\ refused' = TRUE
            /\ UNCHANGED <<is_running, tw>>
       ELSE /\ \E s \in TestThreads :
                 /\ tw[s] = "unstarted"
                 /\ tw' = [tw EXCEPT ![s] = "begin"]
            /\ UNCHANGED <<is_running, refused>>
    /\ UNCHANGED <<current_test, proc, completions>>
    /\ UNCHANGED <<cvars, rvars, avars, mvars, bvars, svars, pvars, nvars>>

\* line 102-106: the thread runs: is_running = True
run_test_thread_begins(s) ==
    /\ tw[s] = "begin"
    /\ is_running' = TRUE
    /\ tw' = [tw EXCEPT ![s] = "popen"]
    /\ UNCHANGED <<current_test, proc, completions, refused>>
    /\ UNCHANGED <<cvars, rvars, avars, mvars, bvars, svars, pvars, nvars>>

\* line 231-235: the handler of the thread: a result with the error is handed
\* to the callbacks
Failed(s) ==
    /\ completions' = Append(completions, Completion(s, "exception", s))
    /\ tw' = [tw EXCEPT ![s] = "finally"]

\* line 116-122: subprocess.Popen starts speedtest, or raises (no such tool)
run_test_thread_popen(s) ==
    /\ tw[s] = "popen"
    /\ \E raised \in BOOLEAN :
          IF raised
          THEN /\ Failed(s)
               /\ UNCHANGED <<current_test, proc>>
          ELSE /\ proc' = [proc EXCEPT ![s] = "running"]
               /\ current_test' = s
               /\ tw' = [tw EXCEPT ![s] = "poll"]
               /\ UNCHANGED completions
    /\ UNCHANGED <<is_running, refused>>
    /\ UNCHANGED <<cvars, rvars, avars, mvars, bvars, svars, pvars, nvars>>

\* the speedtest process of thread s ends by itself
speedtest_exits(s) ==
    /\ proc[s] = "running"
    /\ \E status \in {"exit0", "exit1"} : proc' = [proc EXCEPT ![s] = status]
    /\ UNCHANGED <<is_running, current_test, tw, completions, refused>>
    /\ UNCHANGED <<cvars, rvars, avars, mvars, bvars, svars, pvars, nvars>>

\* line 131-164: the loop reads self.current_test until its stdout ends,
\* which it does when the process has ended, or before (`closed`); with
\* self.current_test None the read raises
run_test_thread_reads(s) ==
    /\ tw[s] = "poll"
    /\ IF current_test = None
       THEN Failed(s)
       ELSE /\ \E closed \in BOOLEAN : closed \/ proc[current_test] # "running"
            /\ tw' = [tw EXCEPT ![s] = "wait"]
            /\ UNCHANGED completions
    /\ UNCHANGED <<is_running, current_test, proc, refused>>
    /\ UNCHANGED <<cvars, rvars, avars, mvars, bvars, svars, pvars, nvars>>

\* line 167-177: wait(timeout=120) returns when the process has ended; when
\* it has not, the process is killed, the callbacks get the timeout and the
\* thread returns through the finally clause
run_test_thread_waits(s) ==
    /\ tw[s] = "wait"
    /\ IF current_test = None
       THEN /\ Failed(s)
            /\ UNCHANGED <<is_running, current_test, proc>>
       ELSE IF proc[current_test] = "running"
       THEN /\ proc' = [proc EXCEPT ![current_test] = "killed"]
            /\ completions' = Append(completions, Completion(s, "timed out", s))
            /\ is_running' = FALSE
            /\ current_test' = None
            /\ tw' = [tw EXCEPT ![s] = "finally"]
       ELSE /\ tw' = [tw EXCEPT ![s] = "result"]
            /\ UNCHANGED <<is_running, current_test, proc, completions>>
    /\ UNCHANGED refused
    /\ UNCHANGED <<cvars, rvars, avars, mvars, bvars, svars, pvars, nvars>>

\* line 184-222: what the result says: status 0 with output that parses, or
\* does not parse; any other status is a failure
ResultOf(status, parses) ==
    IF status = "exit0"
    THEN IF parses THEN "result" ELSE "parse error"
    ELSE "failed"

\* line 180-229: the result is made and handed to the callbacks
run_test_thread_result(s) ==
    /\ tw[s] = "result"
    /\ IF current_test = None
       THEN Failed(s)
       ELSE /\ \E parses \in BOOLEAN :
                 completions' =
                     Append(completions,
                            Completion(s, ResultOf(proc[current_test], parses), s))
            /\ tw' = [tw EXCEPT ![s] = "finally"]
    /\ UNCHANGED <<is_running, current_test, proc, refused>>
    /\ UNCHANGED <<cvars, rvars, avars, mvars, bvars, svars, pvars, nvars>>

\* line 237-239: finally: is_running = False, current_test = None
run_test_thread_finally(s) ==
    /\ tw[s] = "finally"
    /\ is_running' = FALSE
    /\ current_test' = None
    /\ tw' = [tw EXCEPT ![s] = "finished"]
    /\ UNCHANGED <<proc, completions, refused>>
    /\ UNCHANGED <<cvars, rvars, avars, mvars, bvars, svars, pvars, nvars>>

\* line 78-92: with a process and is_running: terminate (kill after two
\* seconds), is_running = False, the callbacks get "Test cancelled"; an
\* exception after terminate() is logged and nothing else is done
cancel_test ==
    /\ current_test # None
    /\ is_running
    /\ proc' = [proc EXCEPT ![current_test] =
                    IF @ = "running" THEN "terminated" ELSE @]
    /\ \E raised \in BOOLEAN :
          IF raised
          THEN /\ proc[current_test] = "running"
               /\ UNCHANGED <<is_running, completions>>
          ELSE /\ is_running' = FALSE
               /\ completions' =
                     Append(completions,
                            Completion(current_test, "cancelled", "cancel_test"))
    /\ UNCHANGED <<current_test, tw, refused>>
    /\ UNCHANGED <<cvars, rvars, avars, mvars, bvars, svars, pvars, nvars>>

InitT == InitCache /\ RetryAtRest /\ AudioAtRest /\ ManagerAtRest
    /\ GlobalAtRest /\ ServiceAtRest
    /\ ParserAtRest /\ InitSpeedtest /\ NotifyAtRest

NextSpeedtest ==
    \/ run_test
    \/ cancel_test
    \/ \E s \in TestThreads :
          \/ run_test_thread_begins(s)
          \/ run_test_thread_popen(s)
          \/ speedtest_exits(s)
          \/ run_test_thread_reads(s)
          \/ run_test_thread_waits(s)
          \/ run_test_thread_result(s)
          \/ run_test_thread_finally(s)

SpecSpeedtest == InitT /\ [][NextSpeedtest]_vars

InitB == InitCache /\ InitRetryOfInitDbus /\ AudioAtRest /\ ManagerAtRest
    /\ InitGlobal /\ ServiceAtRest
    /\ ParserAtRest /\ SpeedtestAtRest /\ NotifyAtRest

NextManager ==
    \/ get_bluetooth_manager_called
    \/ wrapper_enter
    \/ \E cause \in Causes \cup {None}, reply \in AnyReply :
          init_dbus_attempt(cause, reply)
    \/ get_bluetooth_manager_returns
    \/ \E state \in BluezStates : bluez_changes(state)
    \/ bluetooth_supported
    \/ get_bluetooth_status
    \/ \E enabled \in BOOLEAN : set_bluetooth_power(enabled)
    \/ get_devices
    \/ start_discovery
    \/ stop_discovery
    \/ \E path \in DevicePaths : connect_device(path)
    \/ \E path \in DevicePaths : disconnect_device(path)
    \/ \E path \in DevicePaths : connect_device_async_call(path)
    \/ \E path \in DevicePaths : disconnect_device_async_call(path)
    \/ \E path \in DevicePaths : get_device_battery(path)
    \/ find_adapter
    \/ get_current_audio_sink
    \/ restore_last_sink
    \/ \E remove \in {"ok", "Exception"}, receiver \in {"ok", "Exception"},
          quit \in {"ok", "Exception"} : __del__(remove, receiver, quit)

SpecManager == InitB /\ [][NextManager]_vars

---------------------------------------------------------------------------
(* The operations of the services, one caller thread. _cached_run and      *)
(* invalidate_cache hold the lock from their first to their last statement *)
(* and are one step each here.                                             *)

\* the rest of the service instance and the other parts
ServiceFrame ==
    /\ UNCHANGED <<lock, pc, arg, now, result, how, computed, flushed>>
    /\ UNCHANGED <<rvars, avars, mvars, bvars, pvars, tvars, nvars>>

\* the entries live for one more TTL: every entry stored so far expires
TTLPasses ==
    /\ spc \in {"idle", "networks"}
    /\ clock + cache_ttl <= StartTime + MaxTime
    /\ clock' = clock + cache_ttl
    /\ UNCHANGED <<cache, cache_timestamps>>
    /\ UNCHANGED <<svars, pvars, tvars, nvars>>
    /\ ServiceFrame

\* line 67: self._cache_timestamps.get(cache_key, 0)
Stamp(key) == IF key \in DOMAIN cache_timestamps THEN cache_timestamps[key] ELSE 0

\* line 66-68: the entry exists and is younger than the TTL
FreshEntry(key) == key \in DOMAIN cache /\ clock - Stamp(key) < cache_ttl

\* line 62-80: what _cached_run(command, key) returns when the command, if
\* it is run, prints out
Answer(key, out) ==
    IF FreshEntry(key)
    THEN [value |-> cache[key], how |-> "cached", old |-> key \in marked.keys]
    ELSE [value |-> out, how |-> "executed", old |-> FALSE]

\* line 72-78: what _cached_run(command, key) does to the cache
CachedRun(key, out) ==
    /\ cache' = IF FreshEntry(key) THEN cache ELSE Put(cache, key, out)
    /\ cache_timestamps' = IF FreshEntry(key)
                           THEN cache_timestamps
                           ELSE Put(cache_timestamps, key, clock)
    /\ marked' = IF FreshEntry(key)
                 THEN marked
                 ELSE [marked EXCEPT !.keys = @ \ {key}]

\* line 91, 94-95: self._cache_timestamps.clear() / del of the key's stamp
DropStamp(key) == IF key = None THEN EmptyMap ELSE Remove(cache_timestamps, key)

\* the operation returns (or raises) to its caller
Finish(r) ==
    /\ sreturn' = r
    /\ spc' = "idle"
    /\ sarg' = NoOperation

\* a read operation that is one _cached_run call
Read(name, on, command, key) ==
    /\ spc = "idle"
    /\ \E out \in Printed(command) :
          /\ CachedRun(key, out)
          /\ Finish([NoReturn EXCEPT !.op = name, !.on = on,
                                     !.how = Answer(key, out).how,
                                     !.old = Answer(key, out).old])
    /\ UNCHANGED <<clock, scan>>
    /\ ServiceFrame

\* a write operation: its command is run without the cache; `todo` are the
\* keys its invalidate_cache calls name, in order; with none it returns
RunCommand(name, on, state, todo, value, status) ==
    /\ spc = "idle"
    /\ marked' = [by |-> name, keys |-> DOMAIN cache]
    /\ IF todo = <<>>
       THEN Finish([NoReturn EXCEPT !.op = name, !.on = on, !.state = state,
                                    !.value = value, !.status = status,
                                    !.before = Snapshot])
       ELSE /\ spc' = "invalidate"
            /\ sarg' = [NoOperation EXCEPT !.op = name, !.on = on, !.state = state,
                                           !.todo = todo, !.value = value,
                                           !.status = status, !.before = Snapshot]
            /\ UNCHANGED sreturn
    /\ UNCHANGED <<clock, cache, cache_timestamps, scan>>
    /\ ServiceFrame

\* line 82-95: the next invalidate_cache(key) call of the operation; after
\* the last one a write operation returns and scan_for_devices goes on to
\* get_devices
invalidate_cache ==
    /\ spc = "invalidate"
    /\ sarg.todo # <<>>
    /\ LET key == Head(sarg.todo)
       IN  /\ cache' = DropValue(key)
           /\ cache_timestamps' = DropStamp(key)
           /\ marked' = [marked EXCEPT !.keys = @ \ Covered(key)]
    /\ IF Tail(sarg.todo) # <<>>
       THEN /\ sarg' = [sarg EXCEPT !.todo = Tail(sarg.todo)]
            /\ UNCHANGED <<spc, sreturn>>
       ELSE IF sarg.op = "scan_for_devices"
            THEN /\ spc' = "listing"
                 /\ sarg' = [sarg EXCEPT !.todo = <<>>]
                 /\ UNCHANGED sreturn
            ELSE Finish([NoReturn EXCEPT !.op = sarg.op, !.on = sarg.on,
                                         !.state = sarg.state,
                                         !.value = sarg.value,
                                         !.status = sarg.status,
                                         !.before = sarg.before])
    /\ UNCHANGED <<clock, scan>>
    /\ ServiceFrame

---------------------------------------------------------------------------
(* BluetoothctlService                                                     *)

\* line 97-100
bluetoothctl_get_power_state == Read("get_power_state", None, "show", "show")

\* line 172-176
bluetoothctl_get_device_info(mac_address) ==
    Read("get_device_info", mac_address, "info " \o mac_address,
         InfoKey(mac_address))

\* parse_device_listing: the devices an output of `devices` lists
Listed(out) == IF out[2] = 1 THEN <<"m">> ELSE <<"m", "x">>

\* line 136-137: the listing read of get_devices, called by a caller or as
\* the last statement of scan_for_devices
bluetoothctl_get_devices ==
    /\ spc \in {"idle", "listing"}
    /\ \E out \in Printed("devices") :
          LET a == Answer("devices", out)
          IN  /\ CachedRun("devices", out)
              /\ sarg' = [(IF spc = "idle"
                           THEN [NoOperation EXCEPT !.op = "get_devices"]
                           ELSE sarg)
                          EXCEPT !.todo = Listed(a.value), !.how = a.how,
                                 !.old = a.old]
    /\ spc' = "enrich"
    /\ UNCHANGED <<clock, scan, sreturn>>
    /\ ServiceFrame

\* line 140-149: get_device_info of the next listed device
bluetoothctl_get_devices_enrich ==
    /\ spc = "enrich"
    /\ sarg.todo # <<>>
    /\ LET mac_address == Head(sarg.todo)
       IN  \E out \in Printed("info " \o mac_address) :
              CachedRun(InfoKey(mac_address), out)
    /\ sarg' = [sarg EXCEPT !.todo = Tail(sarg.todo)]
    /\ UNCHANGED <<clock, spc, scan, sreturn>>
    /\ ServiceFrame

\* line 151, 170: return devices
bluetoothctl_get_devices_returns ==
    /\ spc = "enrich"
    /\ sarg.todo = <<>>
    /\ Finish([NoReturn EXCEPT !.op = sarg.op, !.how = sarg.how,
                               !.old = sarg.old, !.before = sarg.before])
    /\ UNCHANGED <<clock, cache, cache_timestamps, scan, marked>>
    /\ ServiceFrame

\* a toggle that reports success whatever rfkill did
RfkillSucceededAlways(status) == TRUE

\* line 109-118: subprocess.run(check=True) returned
RfkillSucceeded(status) == status = "0"

\* line 102-132
bluetoothctl_set_power_state(state) ==
    \E status \in RfkillOutcomes :
        RunCommand("set_power_state", None, state,
                   IF RfkillSucceeded(status) THEN <<"show">> ELSE <<>>,
                   RfkillSucceeded(status), status)

\* line 178-185
bluetoothctl_connect_device(mac_address) ==
    \E successful \in BOOLEAN :
        RunCommand("connect_device", mac_address, FALSE,
                   <<InfoKey(mac_address)>>, successful, None)

\* line 187-194
bluetoothctl_disconnect_device(mac_address) ==
    \E successful \in BOOLEAN :
        RunCommand("disconnect_device", mac_address, FALSE,
                   <<InfoKey(mac_address)>>, successful, None)

\* line 196-212
bluetoothctl_pair_device(mac_address) ==
    \E successful \in BOOLEAN :
        RunCommand("pair_device", mac_address, FALSE,
                   <<InfoKey(mac_address)>>, successful, None)

\* line 214-222
bluetoothctl_unpair_device(mac_address) ==
    \E removed \in BOOLEAN :
        RunCommand("unpair_device", mac_address, FALSE,
                   <<InfoKey(mac_address), "devices">>, removed, None)

\* line 224-231
bluetoothctl_trust_device(mac_address) ==
    \E succeeded \in BOOLEAN :
        RunCommand("trust_device", mac_address, FALSE,
                   <<InfoKey(mac_address)>>, succeeded, None)

\* line 233-240
bluetoothctl_untrust_device(mac_address) ==
    \E succeeded \in BOOLEAN :
        RunCommand("untrust_device", mac_address, FALSE,
                   <<InfoKey(mac_address)>>, succeeded, None)

\* line 156-157: _run_command("scan on")
scan_for_devices_scan_on ==
    /\ spc = "idle"
    /\ spc' = "wait"
    /\ sarg' = [NoOperation EXCEPT !.op = "scan_for_devices", !.before = Snapshot]
    /\ scan' = [on |-> 1, off |-> 0]
    /\ UNCHANGED <<clock, cache, cache_timestamps, marked, sreturn>>
    /\ ServiceFrame

\* line 159-161: time.sleep(timeout_seconds) returns after the time asked
\* for, or is interrupted by an exception
scan_for_devices_wait(timeout_seconds, interrupted) ==
    /\ spc = "wait"
    /\ IF interrupted
       THEN /\ clock' = clock
            /\ sarg' = [sarg EXCEPT !.status = "Exception"]
       ELSE /\ clock + timeout_seconds <= StartTime + MaxTime
            /\ clock' = clock + timeout_seconds
            /\ UNCHANGED sarg
    /\ spc' = "scan_off"
    /\ UNCHANGED <<cache, cache_timestamps, scan, marked, sreturn>>
    /\ ServiceFrame

\* a scan that invalidates the power-state key
ScanKeyShow == "show"

\* line 167: self.invalidate_cache("devices")
ScanKey == "devices"

\* line 162-164: finally: _run_command("scan off"); then the exception of
\* the wait goes on to the caller, or the method goes on to line 167
scan_for_devices_scan_off ==
    /\ spc = "scan_off"
    /\ scan' = [scan EXCEPT !.off = @ + 1]
    /\ marked' = [by |-> "scan_for_devices", keys |-> DOMAIN cache]
    /\ IF sarg.status = "Exception"
       THEN Finish([NoReturn EXCEPT !.op = sarg.op, !.raised = "Exception",
                                    !.before = sarg.before])
       ELSE /\ spc' = "invalidate"
            /\ sarg' = [sarg EXCEPT !.todo = <<ScanKey>>]
            /\ UNCHANGED sreturn
    /\ UNCHANGED <<clock, cache, cache_timestamps>>
    /\ ServiceFrame

InitBt == InitCache /\ RetryAtRest /\ AudioAtRest /\ ManagerAtRest
    /\ GlobalAtRest /\ InitService
    /\ ParserAtRest /\ SpeedtestAtRest /\ NotifyAtRest

NextBluetoothctl ==
    \/ TTLPasses
    \/ invalidate_cache
    \/ bluetoothctl_get_power_state
    \/ \E mac_address \in MacAddresses : bluetoothctl_get_device_info(mac_address)
    \/ bluetoothctl_get_devices
    \/ bluetoothctl_get_devices_enrich
    \/ bluetoothctl_get_devices_returns
    \/ \E state \in BOOLEAN : bluetoothctl_set_power_state(state)
    \/ \E mac_address \in MacAddresses : bluetoothctl_connect_device(mac_address)
    \/ \E mac_address \in MacAddresses : bluetoothctl_disconnect_device(mac_address)
    \/ \E mac_address \in MacAddresses : bluetoothctl_pair_device(mac_address)
    \/ \E mac_address \in MacAddresses : bluetoothctl_unpair_device(mac_address)
    \/ \E mac_address \in MacAddresses : bluetoothctl_trust_device(mac_address)
    \/ \E mac_address \in MacAddresses : bluetoothctl_untrust_device(mac_address)
    \/ scan_for_devices_scan_on
    \/ \E timeout_seconds \in ScanTimeouts, interrupted \in BOOLEAN :
          scan_for_devices_wait(timeout_seconds, interrupted)
    \/ scan_for_devices_scan_off

SpecBluetoothctl == InitBt /\ [][NextBluetoothctl]_vars

---------------------------------------------------------------------------
(* NetworkManagerService                                                   *)

\* line 97-100
nmcli_get_power_state == Read("get_power_state", None, PowerCommand, PowerCommand)

\* line 119-123: the rescan command, then time.sleep(1) (a second is less
\* than the TTL: the entries that expire meanwhile are those of TTLPasses)
nmcli_get_networks_rescan ==
    /\ spc = "idle"
    /\ spc' = "networks"
    /\ sarg' = [NoOperation EXCEPT !.op = "get_networks"]
    /\ UNCHANGED <<clock, cache, cache_timestamps, scan, marked, sreturn>>
    /\ ServiceFrame

\* line 126-127
nmcli_get_networks ==
    /\ spc = "networks"
    /\ \E out \in Printed(NetworksCommand) :
          /\ CachedRun(NetworksCommand, out)
          /\ Finish([NoReturn EXCEPT !.op = "get_networks",
                                     !.how = Answer(NetworksCommand, out).how,
                                     !.old = Answer(NetworksCommand, out).old])
    /\ UNCHANGED <<clock, scan>>
    /\ ServiceFrame

\* line 129-139: the profile read of get_network_info, which stores
\* conn_info_{ssid} (a network without a profile goes on to get_networks)
nmcli_get_network_info(ssid) ==
    Read("get_network_info", ssid, "nmcli -t connection show " \o ssid,
         ConnInfoKey(ssid))

\* line 284-298
nmcli_get_saved_networks == Read("get_saved_networks", None, SavedCommand, SavedKey)

\* line 102-115
nmcli_set_power_state(state) ==
    \E empty \in BOOLEAN :
        RunCommand("set_power_state", None, state,
                   IF state THEN <<PowerCommand, NetworksCommand>>
                            ELSE <<PowerCommand>>,
                   empty, None)

\* line 215-228
nmcli_forget_network(ssid) ==
    \E deleted \in BOOLEAN :
        RunCommand("forget_network", ssid, FALSE,
                   <<ConnInfoKey(ssid), NetworksCommand, "nmcli connection show">>,
                   deleted, None)

InitNm == InitCache /\ RetryAtRest /\ AudioAtRest /\ ManagerAtRest
    /\ GlobalAtRest /\ InitService
    /\ ParserAtRest /\ SpeedtestAtRest /\ NotifyAtRest

NextNmcli ==
    \/ TTLPasses
    \/ invalidate_cache
    \/ nmcli_get_power_state
    \/ nmcli_get_networks_rescan
    \/ nmcli_get_networks
    \/ \E ssid \in Ssids : nmcli_get_network_info(ssid)
    \/ nmcli_get_saved_networks
    \/ \E state \in BOOLEAN : nmcli_set_power_state(state)
    \/ \E ssid \in Ssids : nmcli_forget_network(ssid)

SpecNmcli == InitNm /\ [][NextNmcli]_vars

---------------------------------------------------------------------------
(* Properties of the cache                                                 *)

\* age of the stored entry of thread t's key, as the call of t sees it
AgeSeen(t) == now[t] - cache_timestamps[arg[t].cache_key]

\* C1: a _cached_run call that is answered from the cache returns the stored
\* value of an entry whose age now - stored_at is below the TTL; every other
\* call returns the output of an execution of its command.
C1_NeverStale ==
    \A t \in Threads :
        pc[t] = "ret" =>
            IF how[t] = "cached"
            THEN /\ arg[t].cache_key \in DOMAIN cache_timestamps
                 /\ AgeSeen(t) < cache_ttl
                 /\ result[t] = cache[arg[t].cache_key]
            ELSE /\ how[t] = "executed"
                 /\ result[t] \in OutputsOf(arg[t].command)

\* a call is answered from an entry one tick before its expiry
C1_Witness ==
    \E t \in Threads :
        /\ pc[t] = "ret"
        /\ how[t] = "cached"
        /\ AgeSeen(t) = cache_ttl - 1

\* C2: with one caller thread, a _cached_run call made less than TTL after a
\* call of the same key that executed the command and stored its output, with
\* no invalidation covering the key in between, leaves the check straight to
\* its return, without executing, and returns the value the earlier call stored.
C2_SecondCallCached ==
    [][ \A t \in Threads :
          ( /\ pc[t] = "check"
            /\ pc'[t] # "check"
            /\ arg[t].use_cache
            /\ computed[arg[t].cache_key] # NoComputation
            /\ now[t] - computed[arg[t].cache_key].at < cache_ttl )
          => ( /\ pc'[t] = "ret"
               /\ how'[t] = "cached"
               /\ result'[t] = computed[arg[t].cache_key].val ) ]_vars

\* a later call of an explicit key, made while time has passed since the
\* execution, is being answered with the value computed then
C2_Witness ==
    /\ pc["t1"] = "ret"
    /\ how["t1"] = "cached"
    /\ arg["t1"].cache_key # arg["t1"].command
    /\ now["t1"] > computed[arg["t1"].cache_key].at
    /\ result["t1"] = computed[arg["t1"].cache_key].val

\* C3: a key that was invalidated (by its own key or by a full flush) and whose
\* command was not executed since is in neither map, whatever the age of the
\* removed entry, so no call of that key is answered from the cache.
C3_InvalidatedExecutes ==
    /\ \A k \in flushed :
          k \notin DOMAIN cache /\ k \notin DOMAIN cache_timestamps
    /\ \A t \in Threads :
          (pc[t] = "ret" /\ how[t] = "cached") => (arg[t].cache_key \notin flushed)
    /\ \A t \in Threads :
          (pc[t] = "check" /\ arg[t].cache_key \in flushed) => ~Fresh(t)

\* after an invalidation a call of a cached key goes on to the command while
\* the other cached key still has an entry
C3_Witness ==
    \E t \in Threads :
        /\ pc[t] = "run"
        /\ arg[t].use_cache
        /\ arg[t].cache_key \in flushed
        /\ now[t] = StartTime
        /\ DOMAIN cache # {}

\* a thread is running the command or storing its output
Executing(t) == pc[t] \in {"run", "store", "stamp"}

\* the last execution of key k that was to be stored and has not been
\* invalidated began less than the TTL before the call of t read the clock
ExecutedWithinTTL(t, k) ==
    /\ computed[k] # NoComputation
    /\ now[t] - computed[k].at < cache_ttl

\* C37: no two threads execute commands of one service at the same time; a
\* caching call that finds an execution of its key within the TTL, by any
\* thread, does not run the command again; and a call answered from the
\* cache returns the output of that one execution.
C37_OneExecutionWithinTTL ==
    /\ Cardinality({t \in Threads : Executing(t)}) <= 1
    /\ \A t \in Threads :
          (pc[t] = "run" /\ arg[t].use_cache)
              => ~ExecutedWithinTTL(t, arg[t].cache_key)
    /\ \A t \in Threads :
          (pc[t] = "ret" /\ how[t] = "cached") =>
              /\ ExecutedWithinTTL(t, arg[t].cache_key)
              /\ result[t] = computed[arg[t].cache_key].val

\* C37 happens: a thread whose call began at the time another thread's
\* execution of the same key began is answered with that thread's output
C37_Witness ==
    \E t \in Threads :
        /\ pc[t] = "ret"
        /\ how[t] = "cached"
        /\ computed[arg[t].cache_key].by \in Threads \ {t}
        /\ now[t] = computed[arg[t].cache_key].at

\* C4: at most one thread is inside _cached_run or invalidate_cache, the lock
\* is free exactly when none is, the two maps have the same key set whenever
\* the lock is free, and a value about to be returned is an output of the
\* command of the call.
C4_Atomic ==
    /\ Cardinality({ t \in Threads : pc[t] # "idle" }) <= 1
    /\ \A t \in Threads : pc[t] # "idle" <=> lock = t
    /\ lock = Free => DOMAIN cache = DOMAIN cache_timestamps
    /\ \A t \in Threads :
          pc[t] = "ret" => result[t] \in OutputsOf(arg[t].command)

\* a thread is between the two stores, the maps disagree, and another thread
\* is kept out
C4_Witness ==
    \E t \in Threads :
        /\ pc[t] = "stamp"
        /\ DOMAIN cache # DOMAIN cache_timestamps
        /\ \E u \in Threads \ {t} : pc[u] = "idle"

---------------------------------------------------------------------------
(* Properties of with_retries                                              *)

Calls_made == Len(history)

\* every invocation so far raised an exception of a caught type
AlwaysRaisesCaught ==
    \A i \in 1..Len(history) : history[i].kind \in exceptions_to_catch

\* wrapper ended in the deadline check of line 75
StoppedByDeadline == wpc = "done" /\ last_action = "check"

\* wrapper raised the exception of its max_retries-th invocation
RaisedLastOfAll ==
    /\ Calls_made = max_retries
    /\ outcome.kind = "raised"
    /\ outcome.call = max_retries
    /\ outcome.type = history[max_retries].kind

\* C5 as stated: a function that always raises a caught exception is invoked
\* exactly max_retries times and its last exception is raised.
C5_Original ==
    (wpc = "done" /\ AlwaysRaisesCaught) => RaisedLastOfAll

\* C5, amended: such a function is invoked at most max_retries times, and
\* exactly max_retries times, followed by its last exception, in every run
\* that no deadline check ends.
C5_ExactlyNUnlessDeadline ==
    /\ Calls_made <= max_retries
    /\ (wpc = "done" /\ AlwaysRaisesCaught /\ ~StoppedByDeadline)
          => RaisedLastOfAll

\* all of at least two attempts failed and the last exception was raised
C5_Witness ==
    /\ wpc = "done"
    /\ AlwaysRaisesCaught
    /\ ~StoppedByDeadline
    /\ max_retries >= 2
    /\ RaisedLastOfAll

\* C6 as stated: a run ended by the deadline check raises TimeoutError.
C6_TimeoutKind ==
    StoppedByDeadline => outcome = Raised(TimeoutError)

\* C7 as stated: when an invocation that returns lasted longer than the
\* timeout, wrapper raises TimeoutError.
C7_SlowCallTimesOut ==
    ( /\ wpc = "done"
      /\ \E i \in 1..Len(history) :
            history[i].kind = "returned" /\ history[i].over )
    => outcome = Raised(TimeoutError)

C9_NoSleepAfterLast ==
    /\ sleeps <= max_retries - 1
    /\ wpc = "sleep" =>
          /\ attempt < max_retries - 1
          /\ last_action = "attempt"
          /\ history[Calls_made].kind \in exceptions_to_catch
    /\ (last_action = "sleep" /\ wpc # "sleep") => attempt < max_retries
    /\ (wpc = "done" /\ outcome.kind = "raised")
          => last_action \in {"attempt", "check"}

\* every attempt failed, with a sleep between any two, and none after the last
C9_Witness ==
    /\ wpc = "done"
    /\ outcome.kind = "raised"
    /\ last_action = "attempt"
    /\ Calls_made = max_retries
    /\ sleeps = max_retries - 1
    /\ sleeps >= 1

\* C10: an invocation that raises an exception of a type not caught is the
\* last one; wrapper raises that exception and does not sleep after it.
C10_UncaughtPropagates ==
    \A i \in 1..Len(history) :
        (history[i].kind \in Raisable \ exceptions_to_catch) =>
            /\ i = Calls_made
            /\ wpc = "done"
            /\ outcome = Raised(ExceptionOf(history[i].kind, i))
            /\ last_action = "attempt"

\* an uncaught exception ends a run that had retried before
C10_Witness ==
    /\ wpc = "done"
    /\ Calls_made >= 2
    /\ sleeps >= 1
    /\ history[Calls_made].kind \notin exceptions_to_catch
    /\ outcome.kind = "raised"
    /\ outcome.type = "DBusInitError"

---------------------------------------------------------------------------
(* Properties of AudioRouter                                               *)

\* the entries of the history of one kind
Entries(k) == SelectSeq(trace, LAMBDA e : e.kind = k)

\* the entries of the history of one kind that succeeded
Succeeded(k) == SelectSeq(trace, LAMBDA e : e.kind = k /\ e.ok)

\* set_default_sink is running or has ended, called directly or by a method
InSetDefaultSink == callee = "set_default_sink"

\* C11: while no enumeration made by a set_default_sink call has listed the
\* name, the call has run no apply command, has invoked no callback, has not
\* written the sink-state file and has left current_sink as it was; it
\* cannot return, and when it ends it ends with the routing error.
C11_UnknownSinkFails ==
    (InSetDefaultSink /\ Entries("listed_sinks") = <<>>) =>
        /\ Entries("apply_sink") = <<>>
        /\ Entries("callback") = <<>>
        /\ Entries("save") = <<>>
        /\ current_sink = before.current_sink
        /\ sink_state_file = before.file
        /\ sresult # "returned"
        /\ (sattempt = set_default_max_retries => sresult = "raised")
        /\ (apc = "done" /\ op = "set_default_sink" => aoutcome = "AudioRoutingError")

\* C11 happens: a call with subscribers and an earlier sink used all its
\* attempts, none of which listed the name, and raised
C11_Witness ==
    /\ op = "set_default_sink"
    /\ apc = "done"
    /\ Entries("listed_sinks") = <<>>
    /\ sattempt = set_default_max_retries
    /\ aoutcome = "AudioRoutingError"
    /\ Len(callbacks) = 2
    /\ current_sink # NoSink
    /\ current_sink # target
    /\ sink_state_file.exists

\* the steps of a successful attempt that precede the callbacks
StepsBeforeCallbacks == <<"listed_sinks", "apply_sink", "current_sink", "save">>

\* C33: in the history of set_default_sink every invocation of a callback
\* belongs to a run of callbacks that directly follows, in this order, an
\* enumeration that listed the name, an apply command that succeeded, the
\* update of current_sink and the write of the file, all for the name the
\* callback gets; an apply command that failed is followed by no callback
\* before the next enumeration; after the return current_sink is the name.
C33_StepOrder ==
    InSetDefaultSink =>
        /\ \A i \in 1..Len(trace) :
              trace[i].kind = "callback" =>
                  \E j \in 4..(i - 1) :
                      /\ \A k \in (j + 1)..i : trace[k].kind = "callback"
                      /\ \A k \in 1..4 :
                            /\ trace[j - 4 + k].kind = StepsBeforeCallbacks[k]
                            /\ trace[j - 4 + k].name = trace[i].name
                      /\ trace[j - 2].ok
        /\ \A i \in 1..Len(trace) :
              (trace[i].kind = "apply_sink" /\ ~trace[i].ok) =>
                  (i < Len(trace) => trace[i + 1].kind # "callback")
        /\ sresult = "returned" =>
              /\ current_sink = target
              /\ Entries("save") # <<>>

\* C33 happens: an attempt whose command failed was followed by one that
\* succeeded and notified two subscribers
C33_Witness ==
    /\ op = "set_default_sink"
    /\ apc = "done"
    /\ aoutcome = "True"
    /\ Len(Entries("apply_sink")) = 2
    /\ ~Entries("apply_sink")[1].ok
    /\ Len(Entries("callback")) = 2
    /\ Len(Entries("current_sink")) = 1

\* what a step added to the history of the method in progress
Added == SubSeq(trace', Len(trace) + 1, Len(trace'))

\* the apply commands among them that succeeded
AppliedIn(new) == {i \in 1..Len(new) : new[i].kind = "apply_sink" /\ new[i].ok}

\* C38: current_sink is None when the router is made; a step changes it only
\* when the step ran an apply command that succeeded, and every such step
\* leaves it as the name of that command, which the enumeration of the same
\* attempt had listed.
C38_CurrentSinkFollowsApply ==
    /\ current_sink = NoSink
    /\ [][ /\ current_sink' # current_sink => AppliedIn(Added) # {}
           /\ \A i \in AppliedIn(Added) :
                 /\ current_sink' = Added[i].name
                 /\ \E j \in 1..(i - 1) :
                       Added[j] = Ev("listed_sinks", Added[i].name, "", TRUE)
         ]_vars

\* C38 happens: an automatic switch has replaced the sink an earlier call
\* had set, after an attempt whose command failed
C38_Witness ==
    /\ op \in {"switch_to_bluetooth_audio", "switch_to_default_audio"}
    /\ apc = "done"
    /\ before.current_sink # NoSink
    /\ current_sink # before.current_sink
    /\ Len(Entries("apply_sink")) = 2
    /\ ~Entries("apply_sink")[1].ok

\* how often a callback was invoked by the loop
TimesCalled(cb) == Cardinality({i \in 1..Len(called) : called[i] = cb})

\* C34: when the notification loop has ended, every callback that was
\* registered when it began has been invoked exactly once, whatever the
\* callbacks did to the list of callbacks meanwhile.
C34_EveryRegisteredOnce ==
    npc = "done" =>
        \A i \in 1..Len(registered) : TimesCalled(registered[i]) = 1

\* the callbacks that were invoked with the name, in the order invoked
InvokedWith(name) ==
    [i \in 1..Len(Entries("callback")) |->
        IF Entries("callback")[i].name = name THEN Entries("callback")[i].cb ELSE "?"]

\* C12: when a callback raised during the notification of set_default_sink,
\* the callbacks invoked with the new name are the registered ones, each
\* once, and set_default_sink returned True.
C12_RaisingCallbackIsolated ==
    (InSetDefaultSink /\ \E i \in 1..Len(trace) : trace[i].kind = "callback" /\ ~trace[i].ok) =>
        /\ InvokedWith(target) = callbacks
        /\ sresult = "returned"
        /\ (apc = "done" /\ op = "set_default_sink" => aoutcome = "True")

\* C12 happens: the first of two subscribers raised, the second was called
C12_Witness ==
    /\ op = "set_default_sink"
    /\ apc = "done"
    /\ Len(callbacks) = 2
    /\ Len(Entries("callback")) = 2
    /\ ~Entries("callback")[1].ok
    /\ Entries("callback")[2].ok
    /\ aoutcome = "True"

\* the name restore_saved_sink read from the file it found
SavedName == strip(before.file.text)

\* restore_saved_sink found no usable name: no file, nothing but blanks in
\* it, or a name its enumeration did not give
NothingToRestore ==
    \/ ~before.file.exists
    \/ SavedName = <<>>
    \/ enumerated = <<>>
    \/ ~enumerated[1].ok
    \/ ~\E i \in 1..Len(sinks) : sinks[i] = SavedName

NoBluetoothEnumerated ==
    \A i \in 1..Len(enumerated) : enumerated[i].ok /\ ~enumerated[i].bluetooth

\* C14: a switch_to_bluetooth_audio whose enumerations all came back without
\* a Bluetooth sink or source ends after exactly two enumerations of the
\* sinks and two of the sources, returns False and has called neither
\* set_default_sink nor set_default_source.
C14_NoBluetoothNoSwitch ==
    (op = "switch_to_bluetooth_audio" /\ NoBluetoothEnumerated) =>
        /\ trace = <<>>
        /\ callee = None
        /\ apc \in {"enumerate", "retry", "done"}
        /\ (apc = "done" =>
               /\ [i \in 1..Len(enumerated) |-> enumerated[i].what]
                     = <<"sinks", "sources", "sinks", "sources">>
               /\ aoutcome = "False")

\* C14 happens: both rounds listed sinks and sources, none of them Bluetooth
C14_Witness ==
    /\ op = "switch_to_bluetooth_audio"
    /\ apc = "done"
    /\ NoBluetoothEnumerated
    /\ Len(enumerated) = 4
    /\ sinks # <<>>
    /\ sources # <<>>

\* the method called set_default_sink and no apply command succeeded
SinkSwitchFailed == Entries("set_default_sink") # <<>> /\ Succeeded("apply_sink") = <<>>

\* C15: output and input are switched independently: after a failed
\* set_default_sink the source found is still handed to set_default_source,
\* and the method returns True exactly when an endpoint was switched.
C15_Independent ==
    (op = "switch_to_bluetooth_audio" /\ apc = "done") =>
        /\ (SinkSwitchFailed /\ bluetooth_of(sources) # <<>>
               => Entries("set_default_source") # <<>>)
        /\ (aoutcome = "True"
               <=> (Succeeded("apply_sink") # <<>> \/ Succeeded("apply_source") # <<>>))

\* the names that hold "bluez" in some spelling
BluezNames == {bluez_sink, BlueZ_sink, bluez_source, BLUEZ_source}

\* name is the first entry of list that is (or is not) a Bluez name
FirstOfClass(name, list, bluez) ==
    \E i \in 1..Len(list) :
        /\ list[i] = name
        /\ (name \in BluezNames) = bluez
        /\ \A j \in 1..(i - 1) : (list[j] \in BluezNames) # bluez

\* C16: the switches hand to set_default_sink / set_default_source only the
\* first sink and the first source of the enumeration that are of their
\* class (Bluetooth for switch_to_bluetooth_audio, the rest for
\* switch_to_default_audio), at most one of each, and every command they run
\* applies an endpoint of that class.
C16_FirstOfClass ==
    (op \in {"switch_to_bluetooth_audio", "switch_to_default_audio"}) =>
        LET bluez == (op = "switch_to_bluetooth_audio")
        IN  /\ \A i \in 1..Len(trace) :
                 /\ trace[i].kind = "set_default_sink"
                       => FirstOfClass(trace[i].name, sinks, bluez)
                 /\ trace[i].kind = "set_default_source"
                       => FirstOfClass(trace[i].name, sources, bluez)
                 /\ trace[i].kind \in {"apply_sink", "apply_source"}
                       => (trace[i].name \in BluezNames) = bluez
            /\ Len(Entries("set_default_sink")) <= 1
            /\ Len(Entries("set_default_source")) <= 1

\* C16 happens: of two Bluetooth sinks after a regular one the first, spelt
\* in capitals, was applied, and the first Bluetooth source as well
C16_Witness ==
    /\ op = "switch_to_bluetooth_audio"
    /\ apc = "done"
    /\ sinks = <<alsa_output, BlueZ_sink, bluez_sink>>
    /\ Succeeded("apply_sink") # <<>>
    /\ Succeeded("apply_sink")[1].name = BlueZ_sink
    /\ Succeeded("apply_source") # <<>>
    /\ Succeeded("apply_source")[1].name = bluez_source

\* the notification says that a device became connected
SaysConnected ==
    /\ signal.interface = "org.bluez.Device1"
    /\ "Connected" \in DOMAIN signal.changed
    /\ signal.changed["Connected"] = TRUE

\* C17: the handler runs switch_to_bluetooth_audio with the path of the
\* signal exactly when the signal is of the device interface and has
\* Connected true; for any other signal it returns at once with no
\* enumeration, command, callback or change of the sink; it never raises.
C17_OnlyConnectedReroutes ==
    (origin = "signal") =>
        /\ aoutcome # "AudioRoutingError"
        /\ IF SaysConnected
           THEN /\ op = "switch_to_bluetooth_audio"
                /\ device_path = signal.path
           ELSE /\ op = "on_device_property_changed"
                /\ apc = "done"
                /\ aoutcome = "returned"
                /\ enumerated = <<>>
                /\ trace = <<>>
                /\ callee = None
                /\ current_sink = before.current_sink
                /\ sink_state_file = before.file

\* C17 happens: a signal with Connected true among other properties led to
\* a switch of the output
C17_Witness ==
    /\ origin = "signal"
    /\ SaysConnected
    /\ DOMAIN signal.changed # {"Connected"}
    /\ apc = "done"
    /\ aoutcome = "True"
    /\ current_sink \in BluezNames

---------------------------------------------------------------------------
(* Properties of the asynchronous connect / disconnect                     *)

\* the values handed to GLib.idle_add for the call of worker w, run or not
Handed(w) == handed[w]

\* C18: every invocation of a completion callback is made by the main loop,
\* and a worker that has ended, on any of its paths, has handed its callback
\* to the idle queue, once; a worker still running has handed nothing.
C18_CallbackOnMainLoop ==
    /\ \A i \in 1..Len(invoked) : invoked[i].thread = MainThread
    /\ \A w \in Workers :
          /\ wk[w] = "finished" =>
                /\ Len(Handed(w)) = 1
                /\ route[w] \in {"bus_none", "not_confirmed", "exception", "success"}
          /\ wk[w] # "finished" => Handed(w) = <<>>

\* C18 happens: a connect that was not confirmed and a disconnect that
\* raised have both ended and their callbacks have run
C18_Witness ==
    /\ kind["w1"] = "connect"
    /\ route["w1"] = "not_confirmed"
    /\ kind["w2"] = "disconnect"
    /\ route["w2"] = "exception"
    /\ Len(invoked) = 2
    /\ idle_queue = <<>>

\* C19: connect_device_async hands callback(True) only after the re-read of
\* Connected gave true.
C19_SuccessOnlyIfConfirmed ==
    \A w \in Workers :
        (kind[w] = "connect" /\ \E i \in 1..Len(Handed(w)) : Handed(w)[i] = TRUE)
            => is_connected[w] = "true"

\* C20: a connect whose Connect() returned and whose re-read of Connected
\* gave false has ended with callback(False) handed to the main loop, without
\* battery lookup, notification or switch to Bluetooth audio.
C20_UnconfirmedReportsFailure ==
    \A w \in Workers :
        (kind[w] = "connect" /\ "Connect" \in did[w] /\ is_connected[w] = "false") =>
            /\ wk[w] = "finished"
            /\ Handed(w) = <<FALSE>>
            /\ did[w] = {"Connect", "Get Connected"}

\* C20 happens: the device did not report Connected and the callback ran
\* with False on the main loop
C20_Witness ==
    \E w \in Workers :
        /\ kind[w] = "connect"
        /\ "Connect" \in did[w]
        /\ is_connected[w] = "false"
        /\ \E i \in 1..Len(invoked) : invoked[i] = Invocation(w, FALSE, MainThread)

\* C35: a callback registered with the audio router is invoked on the main
\* thread only, never on a thread started by connect_device_async or
\* disconnect_device_async.
C35_RoutingCallbacksOnMainLoop ==
    \A n \in notified : n.thread = MainThread

\* how often the completion callback of the call of worker w was invoked
Invocations(w) == Len(SelectSeq(invoked, LAMBDA c : c.worker = w))

\* C36: the completion callback of a call is invoked at most once, and once
\* the worker has ended and the idle queue is empty it has been invoked
\* exactly once, whatever the callback returned to the idle queue.
C36_CompletionExactlyOnce ==
    \A w \in Workers :
        /\ Invocations(w) <= 1
        /\ (wk[w] = "finished" /\ idle_queue = <<>>) => Invocations(w) = 1

---------------------------------------------------------------------------
(* Properties of get_bluetooth_manager and the public methods              *)

\* the construction ended with an exception of _init_dbus
InitFailed == gpc \in {"returned", "raised"} /\ outcome.kind = "raised"

BooleanMethods ==
    {"bluetooth_supported", "get_bluetooth_status", "set_bluetooth_power",
     "start_discovery", "stop_discovery", "connect_device", "disconnect_device"}

AsyncMethods == {"connect_device_async", "disconnect_device_async"}

\* C21: when establishing the bus connection fails with a D-Bus error, the
\* initialisation is attempted again, up to DBUS_CONNECT_RETRIES attempts,
\* before the failure is reported: a construction that failed and whose
\* attempts all met a D-Bus error has run the body DBUS_CONNECT_RETRIES times.
C21_ConnectionErrorRetried ==
    ( /\ InitFailed
      /\ \A i \in 1..Len(causes) : causes[i] = "DBusException" )
    => Len(history) = DBUS_CONNECT_RETRIES

\* C22: when initialisation fails, get_bluetooth_manager does not raise; on
\* the manager it returns, the boolean methods return false, get_devices
\* returns an empty list, the asynchronous methods deliver callback(false),
\* and none of them starts an audio routing.
C22_DegradedManager ==
    /\ gpc # "raised"
    /\ (InitFailed /\ gpc = "returned") => manager.made
    /\ (InitFailed /\ last_call.op # None) =>
          /\ last_call.op \in BooleanMethods => last_call.value = "False"
          /\ last_call.op = "get_devices" => last_call.value = "[]"
          /\ last_call.op \in AsyncMethods => last_call.value = "callback(False)"
          /\ last_call.op \in BooleanMethods \cup AsyncMethods \cup {"get_devices"}
                => ~last_call.routed /\ last_call.raised = None

\* a failed initialisation was followed by an asynchronous connect
C22_Witness ==
    /\ InitFailed
    /\ causes # <<>>
    /\ manager.made
    /\ last_call.op = "connect_device_async"
    /\ last_call.value = "callback(False)"

\* the values each public method can return
ReturnValues(name) ==
    CASE name = "get_devices" -> {"[]", "[devices]"}
      [] name = "get_device_battery" -> {"percentage", "None", "-1"}
      [] name = "find_adapter" -> {"", hci0}
      [] name = "get_current_audio_sink" -> {"sink", "None"}
      [] OTHER -> {"True", "False"}

\* C23: no public method of an existing manager raises, whatever the bus,
\* the external commands or the audio router do: each returns a boolean, an
\* optional or a list.
C23_NoPublicMethodRaises ==
    last_call.op \in BooleanMethods \cup
                     {"get_devices", "get_device_battery", "find_adapter",
                      "get_current_audio_sink", "restore_last_sink"}
    => /\ last_call.raised = None
       /\ last_call.value \in ReturnValues(last_call.op)

\* a bus call of an initialised manager raised something that is not a D-Bus
\* error, and the method returned
C23_Witness ==
    /\ manager.made
    /\ manager.bus # None
    /\ last_call.op = "get_devices"
    /\ last_call.failed
    /\ last_call.raised = None
    /\ last_call.value = "[]"

\* C24: after an initialised manager met a bus lookup failure (adapter
\* removed, daemon stopped), bluetooth_supported, get_bluetooth_status and
\* get_devices report false / empty without raising.
C24_LookupFailureDowngrades ==
    ( /\ last_call.lost
      /\ ~last_call.degraded
      /\ last_call.op \in {"bluetooth_supported", "get_bluetooth_status",
                           "get_devices"} )
    => /\ last_call.raised = None
       /\ last_call.value \in {"False", "[]"}

---------------------------------------------------------------------------
(* Properties of the service operations                                    *)

\* f without the keys
Without(f, keys) == [k \in (DOMAIN f) \ keys |-> f[k]]

InfoWriters ==
    {"connect_device", "disconnect_device", "pair_device", "trust_device",
     "untrust_device"}

\* the keys the claim lets a write operation of BluetoothctlService remove
Named(r) ==
    IF r.op \in InfoWriters
    THEN {InfoKey(r.on)}
    ELSE IF r.op = "unpair_device"
         THEN {InfoKey(r.on), "devices"}
         ELSE {"show"}

\* a write operation has just returned r
Returned_write(r) ==
    /\ spc = "idle"
    /\ \/ r.op \in InfoWriters \cup {"unpair_device"}
       \/ r.op = "set_power_state" /\ r.value

\* C25: every write operation of BluetoothctlService removes exactly the keys
\* it names and never flushes: connect, disconnect, pair, trust and untrust
\* on m remove info_m, unpair removes info_m and 'devices', a successful
\* set_power_state removes 'show'; every other entry and timestamp is as it
\* was when the operation began.
C25_WritesInvalidateNamedKeys ==
    Returned_write(sreturn) =>
        /\ cache = Without(sreturn.before.cache, Named(sreturn))
        /\ cache_timestamps = Without(sreturn.before.stamps, Named(sreturn))

\* connect_device on m returned: info_m was cached and is gone, info_x and
\* the listing are still cached
C25_Witness ==
    /\ spc = "idle"
    /\ sreturn.op = "connect_device"
    /\ sreturn.on = "m"
    /\ InfoKey("m") \in DOMAIN sreturn.before.cache
    /\ InfoKey("m") \notin DOMAIN cache
    /\ {InfoKey("x"), "devices", "show"} \subseteq DOMAIN cache

\* C26: after forget_network returned, the next get_saved_networks does not
\* return a result that was stored before the forget: it executes the
\* saved-connections query.
C26_ForgetDropsSavedListing ==
    ( /\ spc = "idle"
      /\ sreturn.op = "get_saved_networks"
      /\ marked.by = "forget_network" )
    => /\ ~sreturn.old
       /\ sreturn.how = "executed"

\* C27: after set_power_state returned, for either value of state, the cache
\* holds neither a power-state entry nor a network-listing entry that was
\* stored before the call.
C27_PowerToggleDropsListings ==
    ( /\ spc = "idle"
      /\ sreturn.op = "set_power_state" )
    => \A key \in {PowerCommand, NetworksCommand} :
          ~(key \in DOMAIN cache /\ key \in marked.keys)

ScanRuns(positions) == sarg.op = "scan_for_devices" /\ spc \in positions

\* C28: scan_for_devices issues scan on, waits, issues scan off, invalidates
\* 'devices' and reads the listing, in this order: once scan on was issued,
\* scan off is issued exactly once on every path, the interrupted wait
\* included, and on the normal path the list returned comes from a listing
\* command executed after scan off.
C28_ScanOrder ==
    /\ ScanRuns({"wait", "scan_off"}) => scan = [on |-> 1, off |-> 0]
    /\ ScanRuns({"invalidate", "listing", "enrich"}) => scan = [on |-> 1, off |-> 1]
    /\ ScanRuns({"invalidate"}) => sarg.how = None
    /\ ScanRuns({"listing"}) => sarg.how = None /\ "devices" \notin DOMAIN cache
    /\ ScanRuns({"enrich"}) => sarg.how = "executed" /\ ~sarg.old
    /\ (spc = "idle" /\ sreturn.op = "scan_for_devices") =>
          /\ scan = [on |-> 1, off |-> 1]
          /\ sreturn.raised = None => sreturn.how = "executed" /\ ~sreturn.old

\* a scan that did not outlast the TTL returned while a listing cached
\* before it was still fresh
C28_Witness ==
    /\ spc = "idle"
    /\ sreturn.op = "scan_for_devices"
    /\ sreturn.raised = None
    /\ "devices" \in DOMAIN sreturn.before.cache
    /\ clock - sreturn.before.stamps["devices"] < cache_ttl

---------------------------------------------------------------------------
(* Property of the sink-state file                                         *)

\* C30: the sink-state file holds the name of the last manually selected
\* default sink: automatic routing (switch_to_bluetooth_audio after a
\* property-change notification or a connect, switch_to_default_audio after
\* a disconnect) leaves the persisted name as it was when the switch began.
C30_AutomaticRoutingKeepsFile ==
    ( /\ op \in {"switch_to_bluetooth_audio", "switch_to_default_audio"}
      /\ apc = "done" )
    => sink_state_file = before.file

\* C31: when __del__ has run, the property-change subscription is removed,
\* bus and adapter are None and no exception has left __del__, whichever of
\* its steps raised.
C31_TeardownReleases ==
    teardown.ran =>
        /\ ~teardown.subscribed
        /\ manager.bus = None
        /\ manager.adapter = None
        /\ teardown.raised = None

\* a string occurs in another: some slice of the other equals it
Occurs(word, field) ==
    \E i \in 1..(Len(field) - Len(word) + 1) :
        SubSeq(field, i, i + Len(word) - 1) = word

SecurityOrder == <<"WPA2", "WPA3", "WPA", "WEP">>

SecurityWord(name) ==
    CASE name = "WPA2" -> WPA2
      [] name = "WPA3" -> WPA3
      [] name = "WPA" -> WPA
      [] name = "WEP" -> WEP

\* C32: the security type of a parsed network is the first of WPA2, WPA3,
\* WPA, WEP whose text occurs in the security field, and Open when none
\* occurs; a field with both WPA2 and WPA3 is WPA2.
C32_SecurityByOrder ==
    network.state = "appended" =>
        LET field == parts[3]
            hits == {i \in 1..4 : Occurs(SecurityWord(SecurityOrder[i]), field)}
        IN  /\ hits = {} => network.security_type = "Open"
            /\ hits # {} =>
                  \E i \in hits :
                      /\ \A j \in hits : i <= j
                      /\ network.security_type = SecurityOrder[i]
            /\ (Occurs(WPA2, field) /\ Occurs(WPA3, field))
                  => network.security_type = "WPA2"

\* a field that names WPA3 before WPA2 was classified
C32_Witness ==
    /\ network.state = "appended"
    /\ parts[3] = WPA3 \o <<" ">> \o WPA2
    /\ network.security_type = "WPA2"

---------------------------------------------------------------------------
(* Properties of SpeedtestRunner                                           *)

\* the threads that were started and have not ended
ActiveTests == {s \in TestThreads : tw[s] \notin {"unstarted", "finished"}}

\* C39: at most one test thread is started and not ended, and at most one
\* speedtest process runs, at any time.
C39_OneTestAtATime ==
    /\ Cardinality(ActiveTests) <= 1
    /\ Cardinality({s \in TestThreads : proc[s] = "running"}) <= 1

\* the completion notifications about the test of thread s
CompletionsOf(s) == SelectSeq(completions, LAMBDA c : c.test = s)

\* C40: a test whose thread has ended has had exactly one completion
\* notification, and when no test thread is active is_running is false and
\* current_test is None.
C40_OneCompletionPerTest ==
    /\ \A s \in TestThreads :
          tw[s] = "finished" => Len(CompletionsOf(s)) = 1
    /\ (ActiveTests = {} /\ tw # [s \in TestThreads |-> "unstarted"]) =>
          /\ ~is_running
          /\ current_test = None

====
